---- MODULE Spec2Model ----
(***************************************************************************)
(* A model of the BACnet/IP discovery tool: the inbound decoders of        *)
(* src/src/bacnet.rs (process_response, parse_confirmed_response), the     *)
(* blocking confirmed-request exchange of src/src/bacnet.rs                *)
(* (send_confirmed_request) and the pending-request dispatcher of          *)
(* src/src/main.rs (registration task, receiver task).                     *)
(*                                                                         *)
(* Datagrams are sequences of octets (0..255); Rust's 0-based offsets are  *)
(* written as in the source and shifted by one where a sequence is indexed.*)
(***************************************************************************)
EXTENDS Integers, Sequences, FiniteSets, TLC

VARIABLES
    \* decoder harness: one inbound datagram and what the decoders make of it
    data,        \* the datagram handed to the decoders
    source,      \* its UDP origin
    expected,    \* the invoke id parse_confirmed_response is asked for
    device,      \* result of process_response ("unset" before the call)
    reply,       \* result of parse_confirmed_response
    \* confirmed-request exchange
    sockMode,    \* blocking mode of the client socket
    csQueue,     \* datagrams waiting in the client socket's receive buffer
    wire,        \* confirmed requests transmitted to peers from the present client socket
    sentCount,   \* datagrams the peers have sent so far
    pc,          \* per request: where its task stands
    req,         \* per request: invoke id, peer, service, whether its 3 s have elapsed
    outcome,     \* per request: outcomes observed by the caller, in order
    sawFailure,  \* per request: an Error/Reject/Abort for it was read
    \* dispatcher of main.rs
    nextInvoke,  \* App's rolling invoke-id counter
    regQueue,    \* tx_register channel: (invoke id, delivery slot) in flight
    pending,     \* pending_requests: invoke id -> delivery slot (a request)
    slot,        \* per request: what was sent into its oneshot slot
    lastRx,      \* the ComplexAck the receiver task parsed last, and whether it found an entry
    \* decoder harness of the responder's Who-Is decoder and of the reply bodies
    whois,       \* result of process_whois
    response,    \* the service body of a ComplexAck, as send_confirmed_request returns it
    objects,     \* result of the object scan of read_device_objects
    value,       \* result of the rendering of read_present_value
    \* application state of main.rs
    dsQueue,     \* datagrams waiting in the discovery socket's receive buffer
    heard,       \* every datagram that has arrived on the discovery socket, in order
    txLog,       \* what has been transmitted, and on which socket
    events,      \* AppEvent channel to the main loop
    devices,     \* App.devices: device id -> DiscoveredDevice
    device_objects, \* App.device_objects: device id -> points
    poll,        \* the poller task: position, snapshot, reads attempted
    \* session state of main.rs
    view,        \* App.view_state
    sockets,     \* the ports the discovery and the client socket are bound to
    session,     \* whether the main loop runs, has ended, or start-up has failed
    rxHold,      \* the event the receiver task is suspended on in tx_recv.send
    at,          \* per task: the code path it is on and its position on it
    held,        \* per task: the mutexes it holds
    app,         \* App: the interface list and its selection, is_scanning, status_message
    spawned      \* the tasks the 'd' key has spawned that have not finished

codecVars == <<data, source, expected, device, reply>>
xchgVars  == <<sockMode, csQueue, wire, sentCount, pc, req, outcome, sawFailure>>
dispVars  == <<nextInvoke, regQueue, pending, slot, lastRx>>
bodyVars  == <<whois, response, objects, value>>
sessVars  == <<view, sockets, session, rxHold, at, held, app, spawned>>
appVars   == <<dsQueue, heard, txLog, events, devices, device_objects, poll,
               view, sockets, session, rxHold, at, held, app, spawned>>
vars      == <<data, source, expected, device, reply,
               sockMode, csQueue, wire, sentCount, pc, req, outcome, sawFailure,
               nextInvoke, regQueue, pending, slot, lastRx,
               whois, response, objects, value,
               dsQueue, heard, txLog, events, devices, device_objects, poll,
               view, sockets, session, rxHold, at, held, app, spawned>>

-----------------------------------------------------------------------------
(* Bounds of the model *)

MaxShortLen == 3      \* every octet string up to this length is an input
MaxReq == 2           \* confirmed requests issued in one run
MaxDatagrams == 2     \* datagrams the peers send in one run
MaxHeard == 3         \* datagrams that arrive on the discovery socket in one run
MaxSweeps == 2        \* sweeps the poller starts in one run
MaxRoleReq == 1       \* confirmed requests issued while both sockets are watched

-----------------------------------------------------------------------------
(* Octets and option values *)

BvlcType == 129              \* 0x81
FnForwarded == 4             \* 0x04 Forwarded-NPDU
FnUnicast == 10              \* 0x0A Original-Unicast-NPDU
FnBroadcast == 11            \* 0x0B Original-Broadcast-NPDU
PduUnconfirmed == 16         \* 0x10
SvcIAm == 0                  \* UnconfirmedServiceChoice::IAm
SvcWhoIs == 8                \* UnconfirmedServiceChoice::WhoIs
SvcReadProperty == 12        \* ConfirmedServiceChoice::ReadProperty
SvcReadPropertyMultiple == 14
TagObjectId == 196           \* 0xC4
TagEnumerated1 == 145        \* 0x91

None == [tag |-> "None"]
Panic == [tag |-> "Panic"]
Some(v) == [tag |-> "Some", val |-> v]

\* &s[n..]: the caller guarantees n <= Len(s)
Drop(s, n) == SubSeq(s, n + 1, Len(s))
Take(s, n) == SubSeq(s, 1, n)

Bit(b, k) == (b \div (2 ^ k)) % 2

-----------------------------------------------------------------------------
(* bacnet_rs decoders, as the callers in bacnet.rs use them *)

\* Npdu::decode: version octet 1, control octet, optional DNET/DLEN/DADR,
\* optional SNET/SLEN/SADR, hop count when a destination is present.
NpduDecode(d) ==
    IF Len(d) < 2 \/ d[1] # 1 THEN [ok |-> FALSE, len |-> 0]
    ELSE
      LET hasDest == Bit(d[2], 5) = 1
          hasSrc  == Bit(d[2], 3) = 1
          destOk  == ~hasDest \/ (Len(d) >= 5 /\ Len(d) >= 5 + d[5])
          afterDest == IF hasDest /\ destOk THEN 5 + d[5] ELSE 2
          srcOk   == ~hasSrc \/ (destOk /\ Len(d) >= afterDest + 3
                                  /\ Len(d) >= afterDest + 3 + d[afterDest + 3])
          afterSrc == IF hasSrc /\ srcOk THEN afterDest + 3 + d[afterDest + 3]
                      ELSE afterDest
          total   == IF hasDest THEN afterSrc + 1 ELSE afterSrc
      IN IF destOk /\ srcOk /\ Len(d) >= total
         THEN [ok |-> TRUE, len |-> total]
         ELSE [ok |-> FALSE, len |-> 0]

\* An application-tagged unsigned (tag 2) or enumerated (tag 9) at offset 0:
\* value and octets consumed.
TaggedUnsigned(d, tagno) ==
    IF Len(d) < 1 \/ d[1] \div 16 # tagno \/ Bit(d[1], 3) # 0 THEN [ok |-> FALSE, val |-> 0, len |-> 0]
    ELSE LET l == d[1] % 8 IN
         IF l = 1 /\ Len(d) >= 2 THEN [ok |-> TRUE, val |-> d[2], len |-> 2]
         ELSE IF l = 2 /\ Len(d) >= 3 THEN [ok |-> TRUE, val |-> d[2] * 256 + d[3], len |-> 3]
         ELSE [ok |-> FALSE, val |-> 0, len |-> 0]

\* IAmRequest::decode: objectIdentifier, maxAPDULengthAccepted,
\* segmentationSupported, vendorID.
IAmDecode(d) ==
    LET bad == [ok |-> FALSE, instance |-> 0, max_apdu |-> 0, segmentation |-> 0, vendor |-> 0] IN
    IF Len(d) < 5 \/ d[1] # TagObjectId THEN bad
    ELSE
      LET instance == (d[3] % 64) * 65536 + d[4] * 256 + d[5]
          apdu == TaggedUnsigned(Drop(d, 5), 2)
          seg  == TaggedUnsigned(Drop(d, 5 + apdu.len), 9)
          ven  == TaggedUnsigned(Drop(d, 5 + apdu.len + seg.len), 2)
      IN IF apdu.ok /\ seg.ok /\ ven.ok
         THEN [ok |-> TRUE, instance |-> instance, max_apdu |-> apdu.val,
               segmentation |-> seg.val, vendor |-> ven.val]
         ELSE bad

\* Apdu::decode: the PDU type is the high nibble of the first octet.
ApduDecode(d) ==
    LET bad == [ok |-> FALSE, type |-> "None", invoke_id |-> 0, service_data |-> <<>>] IN
    IF Len(d) < 1 THEN bad
    ELSE LET t == d[1] \div 16 IN
      IF t = 3 THEN
        LET hdr == IF Bit(d[1], 3) = 1 THEN 5 ELSE 3 IN
        IF Len(d) < hdr THEN bad
        ELSE [ok |-> TRUE, type |-> "ComplexAck", invoke_id |-> d[2],
              service_data |-> Drop(d, hdr)]
      ELSE IF t = 5 THEN
        IF Len(d) < 3 THEN bad
        ELSE [ok |-> TRUE, type |-> "Error", invoke_id |-> d[2], service_data |-> Drop(d, 3)]
      ELSE IF t = 6 THEN
        IF Len(d) < 3 THEN bad
        ELSE [ok |-> TRUE, type |-> "Reject", invoke_id |-> d[2], service_data |-> Drop(d, 2)]
      ELSE IF t = 7 THEN
        IF Len(d) < 3 THEN bad
        ELSE [ok |-> TRUE, type |-> "Abort", invoke_id |-> d[2], service_data |-> Drop(d, 2)]
      ELSE IF t = 2 THEN
        IF Len(d) < 3 THEN bad
        ELSE [ok |-> TRUE, type |-> "SimpleAck", invoke_id |-> d[2], service_data |-> <<>>]
      ELSE IF t = 1 THEN
        IF Len(d) < 2 THEN bad
        ELSE [ok |-> TRUE, type |-> "Unconfirmed", invoke_id |-> 0, service_data |-> Drop(d, 2)]
      ELSE IF t = 0 THEN
        IF Len(d) < 4 THEN bad
        ELSE [ok |-> TRUE, type |-> "ConfirmedRequest", invoke_id |-> d[3],
              service_data |-> Drop(d, 4)]
      ELSE bad

-----------------------------------------------------------------------------
(* Inbound decoders of bacnet.rs *)

Unset == [tag |-> "Unset"]

\* `data.len() < 4 || data[0] != 0x81` negated. With the length field of
\* octets 2-3 compared against the datagram, as a decoder that dropped
\* mismatching datagrams would do, and without the marker test:
BvlcHeaderOk_LengthChecked(d) ==
    Len(d) >= 4 /\ d[1] = BvlcType /\ d[3] * 256 + d[4] = Len(d)

BvlcHeaderOk_NoMarker(d) == Len(d) >= 4

BvlcHeaderOk(d) == ~(Len(d) < 4 \/ d[1] # BvlcType)

\* match bvlc_func { 0x0A | 0x0B => 4, 0x04 => 10, _ => return None }; -1 is the
\* early return.
IAmNpduStart_ForwardedAt4(fn) ==
    IF fn \in {FnUnicast, FnBroadcast, FnForwarded} THEN 4 ELSE -1

IAmNpduStart(fn) ==
    IF fn \in {FnUnicast, FnBroadcast} THEN 4
    ELSE IF fn = FnForwarded THEN 10
    ELSE -1

\* The record process_response builds (vendor_name and last_seen, which no
\* decision reads, are left out).
DiscoveredDevice(iam, src) ==
    [device_id |-> iam.instance, address |-> src, vendor_id |-> iam.vendor,
     max_apdu |-> iam.max_apdu, segmentation |-> iam.segmentation]

ProcessResponse(d, src) ==
    IF ~BvlcHeaderOk(d) THEN None
    ELSE LET npdu_start == IAmNpduStart(d[2]) IN
      IF npdu_start < 0 THEN None
      ELSE IF Len(d) <= npdu_start THEN None
      ELSE LET npdu == NpduDecode(Drop(d, npdu_start)) IN
        IF ~npdu.ok THEN None
        ELSE LET apdu_start == npdu_start + npdu.len IN
          IF Len(d) <= apdu_start THEN None
          ELSE LET apdu == Drop(d, apdu_start) IN
            IF Len(apdu) < 2 \/ apdu[1] # PduUnconfirmed \/ apdu[2] # SvcIAm THEN None
            ELSE LET iam == IAmDecode(Drop(apdu, 2)) IN
              IF iam.ok THEN Some(DiscoveredDevice(iam, src)) ELSE None

\* match data[1] { 0x0A => 4, 0x04 => 10, _ => return None }
ReplyNpduStart(fn) ==
    IF fn = FnUnicast THEN 4
    ELSE IF fn = FnForwarded THEN 10
    ELSE -1

\* The match of parse_confirmed_response on the decoded APDU: only a ComplexAck
\* carrying the expected invoke id yields a body; an Error with that id is
\* logged and yields nothing, as does every other PDU.
MatchApdu(apdu, expected_invoke_id) ==
    IF apdu.type = "ComplexAck" /\ apdu.invoke_id = expected_invoke_id
    THEN Some(apdu.service_data)
    ELSE None

\* The front of parse_confirmed_response: header test, NPDU offset, Npdu::decode,
\* Apdu::decode. &data[npdu_start..] panics when npdu_start exceeds the length.
DecodeReplyApdu(d) ==
    IF Len(d) < 4 \/ d[1] # BvlcType THEN None
    ELSE LET npdu_start == ReplyNpduStart(d[2]) IN
      IF npdu_start < 0 THEN None
      ELSE IF npdu_start > Len(d) THEN Panic
      ELSE LET npdu == NpduDecode(Drop(d, npdu_start)) IN
        IF ~npdu.ok THEN None
        ELSE LET apdu == ApduDecode(Drop(d, npdu_start + npdu.len)) IN
          IF ~apdu.ok THEN None ELSE Some(apdu)

ParseConfirmedResponse(d, expected_invoke_id) ==
    LET a == DecodeReplyApdu(d) IN
    IF a.tag # "Some" THEN a ELSE MatchApdu(a.val, expected_invoke_id)

\* The one-argument parse_confirmed_response the receiver task of main.rs calls:
\* the same decoding, returning the invoke id with the body instead of
\* comparing it.
ParseConfirmedResponseAny(d) ==
    LET a == DecodeReplyApdu(d) IN
    IF a.tag # "Some" THEN a
    ELSE IF a.val.type = "ComplexAck"
         THEN Some([id |-> a.val.invoke_id, sdata |-> a.val.service_data])
         ELSE None

-----------------------------------------------------------------------------
(* The Who-Is decoders of the responder and of the discovery test *)

\* WhoIsRequest::new(): no device-instance range.
NoLimits == [limits |-> FALSE, low |-> 0, high |-> 0]

\* A context-tagged unsigned of one or two octets at offset 0.
ContextUnsigned(d, tagno) ==
    IF Len(d) < 1 \/ d[1] \div 16 # tagno \/ Bit(d[1], 3) # 1 THEN [ok |-> FALSE, val |-> 0, len |-> 0]
    ELSE LET l == d[1] % 8 IN
         IF l = 1 /\ Len(d) >= 2 THEN [ok |-> TRUE, val |-> d[2], len |-> 2]
         ELSE IF l = 2 /\ Len(d) >= 3 THEN [ok |-> TRUE, val |-> d[2] * 256 + d[3], len |-> 3]
         ELSE [ok |-> FALSE, val |-> 0, len |-> 0]

\* WhoIsRequest::decode: an empty body, or the low limit [0] and the high
\* limit [1] together.
WhoIsDecode(d) ==
    IF d = <<>> THEN Some(NoLimits)
    ELSE LET lo == ContextUnsigned(d, 0)
             hi == ContextUnsigned(Drop(d, lo.len), 1)
         IN IF lo.ok /\ hi.ok
            THEN Some([limits |-> TRUE, low |-> lo.val, high |-> hi.val])
            ELSE None

\* WhoIsRequest::matches
Matches(w, device_id) ==
    ~w.limits \/ (w.low <= device_id /\ device_id <= w.high)

\* match data[1] { 0x0A | 0x0B => 4, 0x04 => 10, _ => return None }. As a
\* decoder listing only the unicast and forwarded functions would have it:
WhoIsNpduStart_NoBroadcast(fn) ==
    IF fn = FnUnicast THEN 4
    ELSE IF fn = FnForwarded THEN 10
    ELSE -1

WhoIsNpduStart(fn) ==
    IF fn \in {FnUnicast, FnBroadcast} THEN 4
    ELSE IF fn = FnForwarded THEN 10
    ELSE -1

\* The front shared by process_whois and is_whois: the APDU of an
\* Unconfirmed-Request Who-Is, or nothing.
WhoIsApdu(d) ==
    IF Len(d) < 4 \/ d[1] # BvlcType THEN None
    ELSE LET npdu_start == WhoIsNpduStart(d[2]) IN
      IF npdu_start < 0 THEN None
      ELSE IF Len(d) <= npdu_start THEN None
      ELSE LET npdu == NpduDecode(Drop(d, npdu_start)) IN
        IF ~npdu.ok THEN None
        ELSE LET apdu_start == npdu_start + npdu.len IN
          IF Len(d) <= apdu_start THEN None
          ELSE LET apdu == Drop(d, apdu_start) IN
            IF Len(apdu) < 2 \/ apdu[1] # PduUnconfirmed \/ apdu[2] # SvcWhoIs THEN None
            ELSE Some(apdu)

ProcessWhois(d) ==
    LET a == WhoIsApdu(d) IN
    IF a.tag # "Some" THEN None
    ELSE IF Len(a.val) > 2 THEN WhoIsDecode(Drop(a.val, 2))
    ELSE Some(NoLimits)

IsWhois(d) == WhoIsApdu(d).tag = "Some"

-----------------------------------------------------------------------------
(* Frames as the peers build them (responder.rs and the tests) *)

\* bvlc[2] = (total_len >> 8) as u8; bvlc[3] = (total_len & 0xFF) as u8, with
\* total_len = bvlc.len() as u16. As a header that counted the octets after
\* itself only would do:
WithLength_PayloadOnly(frame) ==
    [frame EXCEPT ![3] = ((Len(frame) - 4) \div 256) % 256, ![4] = (Len(frame) - 4) % 256]

WithLength(frame) ==
    [frame EXCEPT ![3] = (Len(frame) \div 256) % 256, ![4] = Len(frame) % 256]

Originator == <<192, 168, 1, 7, 186, 192>>

Bvlc(fn, message) ==
    WithLength(<<BvlcType, fn, 0, 0>> \o (IF fn = FnForwarded THEN Originator ELSE <<>>) \o message)

NpduPlain == <<1, 0>>                       \* Npdu::new().encode()
NpduRouted == <<1, 8, 0, 7, 1, 9>>          \* SNET 7, SLEN 1, SADR 9
NpduGlobalBroadcast == <<1, 32, 255, 255, 0, 255>>

EncodeUnsigned(v) ==
    IF v < 256 THEN <<33, v>> ELSE <<34, (v \div 256) % 256, v % 256>>

\* IAmRequest::new(Device:id, 1476, 0, vendor).encode(): the Device type is 8,
\* so the packed identifier is 0x02000000 | id.
IAmBody(id, vendor) ==
    <<TagObjectId, 2, (id \div 65536) % 64, (id \div 256) % 256, id % 256>>
    \o EncodeUnsigned(1476) \o <<TagEnumerated1, 0>> \o EncodeUnsigned(vendor)

IAmFrame(fn, npdu, id, vendor) ==
    Bvlc(fn, npdu \o <<PduUnconfirmed, SvcIAm>> \o IAmBody(id, vendor))

ComplexAckFrame(fn, invoke_id, service, body) ==
    Bvlc(fn, NpduPlain \o <<48, invoke_id, service>> \o body)

ErrorFrame(fn, invoke_id, service) ==
    Bvlc(fn, NpduPlain \o <<80, invoke_id, service, TagEnumerated1, 2, TagEnumerated1, 31>>)

RejectFrame(fn, invoke_id) == Bvlc(fn, NpduPlain \o <<96, invoke_id, 4>>)

AbortFrame(fn, invoke_id) == Bvlc(fn, NpduPlain \o <<112, invoke_id, 0>>)

WhoIsFrame == Bvlc(FnBroadcast, NpduGlobalBroadcast \o <<PduUnconfirmed, SvcWhoIs>>)

\* A Who-Is for the device instances low..high, as other BACnet clients send it.
WhoIsRangeFrame(low, high) ==
    Bvlc(FnBroadcast, NpduGlobalBroadcast \o <<PduUnconfirmed, SvcWhoIs>>
                      \o <<9, low>> \o <<26, high \div 256, high % 256>>)

-----------------------------------------------------------------------------
(* Decoder harness: one datagram from a bounded set, both decoders applied *)

Addrs == {"192.168.1.100:47808", "10.0.0.5:47808"}
DeviceIds == {0, 1234, 99999, 4194303}
VendorIds == {5, 260}
InvokeIds == {1, 2}
Npdus == {NpduPlain, NpduRouted, NpduGlobalBroadcast}
IAmFunctions == {FnUnicast, FnBroadcast, FnForwarded}
ReplyFunctions == {FnUnicast, FnBroadcast, FnForwarded}

Alphabet == {0, BvlcType, FnUnicast}
ShortInputs == UNION {[1..n -> Alphabet] : n \in 0..MaxShortLen}

\* The seed datagrams of the unit tests and of the I-Am decode scenario.
SeedInvalid == {<<0, 1, 2>>, <<129, 10, 0, 10, 0, 0>>}
SeedIAm == <<129, 10, 0, 20, 1, 0, 16, 0, 196, 2, 0, 4, 210, 34, 5, 196, 145, 0, 34, 1, 4>>

IAmFrames ==
    {IAmFrame(fn, n, id, v) : fn \in IAmFunctions, n \in Npdus, id \in DeviceIds, v \in VendorIds}

ReplyFrames ==
    UNION {{ComplexAckFrame(fn, i, SvcReadProperty, <<62, 33, 7, 63>>),
            ErrorFrame(fn, i, SvcReadProperty),
            RejectFrame(fn, i),
            AbortFrame(fn, i)} : fn \in ReplyFunctions, i \in InvokeIds}

GoodFrames == IAmFrames \cup ReplyFrames \cup {WhoIsFrame, WhoIsRangeFrame(0, 1234), WhoIsRangeFrame(7, 999)}

\* Frames cut short at every length from the BVLC header on.
Truncatable ==
    {IAmFrame(fn, NpduPlain, 1234, 260) : fn \in IAmFunctions}
    \cup {ComplexAckFrame(fn, 1, SvcReadProperty, <<62, 33, 7, 63>>) : fn \in ReplyFunctions}

Damaged(f) ==
    {f,
     [f EXCEPT ![1] = 0],                       \* not a BVLC marker
     [f EXCEPT ![2] = 0],                       \* BVLC Result
     [f EXCEPT ![2] = 9],                       \* a function the decoders do not list
     [f EXCEPT ![4] = (f[4] + 1) % 256],        \* length field one too large
     [f EXCEPT ![3] = 0, ![4] = 4]}             \* length field of the bare header

CodecInputs ==
    ShortInputs \cup SeedInvalid \cup {SeedIAm}
    \cup UNION {Damaged(f) : f \in GoodFrames}
    \cup UNION {{Take(f, k) : k \in 4..(Len(f) - 1)} : f \in Truncatable}

NoRequests == [r \in {} |-> 0]
NoRx == [data |-> <<>>, hit |-> FALSE]

\* The poller before its first sweep: asleep, with no snapshot.
PollIdle == [pc |-> "sleep", todo |-> <<>>, tried |-> <<>>, id |-> 0, sweeps |-> 0,
             asked |-> NoRequests, spaced |-> FALSE]

\* Nothing decoded yet by the Who-Is decoder or from a reply body.
BodyIdle ==
    /\ whois = Unset /\ response = <<>> /\ objects = Unset /\ value = Unset

\* ViewState of app.rs:18-22.
InterfaceSelect == [kind |-> "InterfaceSelect", id |-> 0]

DeviceList == [kind |-> "DeviceList", id |-> 0]

ObjectList(id) == [kind |-> "ObjectList", id |-> id]

\* discovery_socket and client_socket of main.rs:71-72 before Enter, and
\* after Enter when create_shared_socket(47808) succeeded (main.rs:92-104).
NoSockets == [ds |-> "none", cs |-> "none"]

SocketsBound == [ds |-> "47808", cs |-> "ephemeral"]

\* main.rs:94-97: create_shared_socket(47808) failed and the discovery socket
\* was bound to port 0 instead.
SocketsFallback == [ds |-> "ephemeral", cs |-> "ephemeral"]

\* The tasks of main.rs that take a mutex: the main loop (76-235), the
\* receiver (112-134), the poller (143-160), the registration task (53-57).
Tasks == {"main", "receiver", "poller", "registration"}

\* Every task starts at the first await of its loop.
TaskStart ==
    [t \in Tasks |-> [path |-> CASE t = "main" -> "Tick"
                                 [] t = "receiver" -> "yield"
                                 [] t = "poller" -> "sleep"
                                 [] OTHER -> "register",
                      step |-> 1]]

\* App::new (app.rs:48-68) on a host with n network interfaces: the first row
\* of the interface list is selected when there is one.
AppNew(n) ==
    [interfaces |-> n,
     interface_list_state |-> IF n > 0 THEN Some(0) ELSE None,
     selected_interface_index |-> None,
     is_scanning |-> FALSE,
     status_message |-> "Select an interface and press 'Enter'"]

\* app.rs:147-153, select_interface: nothing without a selected row.
AppSelectInterface(a) ==
    IF a.interface_list_state # None
    THEN [a EXCEPT !.selected_interface_index = a.interface_list_state,
                   !.status_message = "Interface selected. Press 'd' to discover."]
    ELSE a

\* No enumeration task and no scan task is running.
NoneSpawned == [enumerate |-> NoRequests, scans |-> 0]

\* The session once the one interface is selected and port 47808 was free.
SessionIdle ==
    /\ view = DeviceList /\ sockets = SocketsBound /\ session = "running"
    /\ rxHold = None
    /\ at = TaskStart /\ held = [t \in Tasks |-> {}]
    /\ app = AppSelectInterface(AppNew(1)) /\ spawned = NoneSpawned

\* The application right after start-up: empty queues, maps and channel.
AppIdle ==
    /\ dsQueue = <<>> /\ heard = <<>> /\ txLog = {} /\ events = <<>>
    /\ devices = NoRequests /\ device_objects = NoRequests
    /\ poll = PollIdle
    /\ SessionIdle

InitCodec ==
    /\ data \in CodecInputs
    /\ source \in Addrs
    /\ expected \in InvokeIds
    /\ device = Unset
    /\ reply = Unset
    /\ sockMode = "nonblocking" /\ csQueue = <<>> /\ wire = {}
    /\ sentCount = 0 /\ pc = NoRequests /\ req = NoRequests
    /\ outcome = NoRequests /\ sawFailure = NoRequests
    /\ nextInvoke = 0 /\ regQueue = <<>> /\ pending = NoRequests /\ slot = NoRequests
    /\ lastRx = NoRx
    /\ BodyIdle
    /\ AppIdle

\* The receiver hands a datagram of the discovery socket to process_response.
CallProcessResponse ==
    /\ device = Unset
    /\ device' = ProcessResponse(data, source)
    /\ UNCHANGED <<data, source, expected, reply>>
    /\ UNCHANGED xchgVars
    /\ UNCHANGED dispVars
    /\ UNCHANGED bodyVars
    /\ UNCHANGED appVars

\* send_confirmed_request hands a datagram of the client socket to
\* parse_confirmed_response.
CallParseConfirmedResponse ==
    /\ reply = Unset
    /\ reply' = ParseConfirmedResponse(data, expected)
    /\ UNCHANGED <<data, source, expected, device>>
    /\ UNCHANGED xchgVars
    /\ UNCHANGED dispVars
    /\ UNCHANGED bodyVars
    /\ UNCHANGED appVars

\* The responder hands a datagram to process_whois.
CallProcessWhois ==
    /\ whois = Unset
    /\ whois' = ProcessWhois(data)
    /\ UNCHANGED <<response, objects, value>>
    /\ UNCHANGED codecVars
    /\ UNCHANGED xchgVars
    /\ UNCHANGED dispVars
    /\ UNCHANGED appVars

NextCodec == CallProcessResponse \/ CallParseConfirmedResponse \/ CallProcessWhois

SpecCodec == InitCodec /\ [][NextCodec]_vars

-----------------------------------------------------------------------------
(* Properties of the decoders, checked under SpecCodec *)

LengthField(d) == d[3] * 256 + d[4]
LengthMismatch(d) == Len(d) >= 4 /\ LengthField(d) # Len(d)

\* C8: for every octet string shorter than 4 or whose octet 0 is not 0x81,
\* process_response returns no device; so it does for the two seed inputs
\* [0x00,0x01,0x02] and [0x81,0x0A,0x00,0x0A,0x00,0x00].
C8_InvalidHeaderNoDevice ==
    (device # Unset /\ (Len(data) < 4 \/ data[1] # BvlcType \/ data \in SeedInvalid))
        => device = None

\* A datagram that is a decodable I-Am but for its first octet was dropped.
C8_Witness ==
    /\ device = None
    /\ Len(data) >= 4 /\ data[1] # BvlcType
    /\ ProcessResponse([data EXCEPT ![1] = BvlcType], source) # None

\* C9: a well-formed I-Am frame (Original-Unicast, Original-Broadcast or
\* Forwarded-NPDU) announcing device instance id with vendor v, arriving from
\* UDP source S, yields a device with device_id = id, vendor_id = v, address = S.
C9_IAmDecoded ==
    device # Unset =>
        \A fn \in IAmFunctions, n \in Npdus, id \in DeviceIds, v \in VendorIds :
            data = IAmFrame(fn, n, id, v) =>
                /\ device.tag = "Some"
                /\ device.val.device_id = id
                /\ device.val.vendor_id = v
                /\ device.val.address = source

\* A Forwarded-NPDU I-Am with a routed NPDU was decoded.
C9_Witness ==
    /\ data = IAmFrame(FnForwarded, NpduRouted, 99999, 260)
    /\ device.tag = "Some"
    /\ device.val.device_id = 99999
    /\ device.val.address = source

\* C10 as stated: a datagram whose BVLC length field differs from its actual
\* length yields no device and no reply.
C10_LengthMismatchDropped ==
    LengthMismatch(data) =>
        /\ device \in {Unset, None}
        /\ reply \in {Unset, None, Panic}

\* C10 as amended: the decoders do not read octets 2-3; each returns what it
\* returns for the same datagram carrying the matching length field.
C10_LengthFieldIgnored ==
    Len(data) >= 4 =>
        /\ device # Unset => device = ProcessResponse(WithLength(data), source)
        /\ reply # Unset => reply = ParseConfirmedResponse(WithLength(data), expected)

\* An I-Am whose length field is wrong was decoded into a device.
C10_Witness ==
    /\ LengthMismatch(data)
    /\ device.tag = "Some"

\* C11: both decoders find the NPDU at offset 4 of Original-Unicast and
\* Original-Broadcast frames and at offset 10 of Forwarded-NPDU frames, so a
\* well-formed I-Am yields its device and a well-formed ComplexAck carrying the
\* expected invoke id yields its body under each of the three functions; a
\* datagram with any other function code yields no device and no reply.
C11_NpduOffsets ==
    /\ \A f \in IAmFrames : (data = f /\ device # Unset) => device.tag = "Some"
    /\ \A fn \in ReplyFunctions :
         (data = ComplexAckFrame(fn, expected, SvcReadProperty, <<62, 33, 7, 63>>) /\ reply # Unset)
             => reply = Some(<<62, 33, 7, 63>>)
    /\ (Len(data) >= 4 /\ data[1] = BvlcType
            /\ data[2] \notin {FnUnicast, FnBroadcast, FnForwarded})
         => (device \in {Unset, None} /\ reply \in {Unset, None})

\* C12: the frame the Who-Is encoder produces is recognised by the Who-Is
\* decoders as a Who-Is without limits, one that matches every device id.
C12_WhoIsRoundTrip ==
    (data = WhoIsFrame /\ whois # Unset) =>
        /\ whois = Some(NoLimits)
        /\ \A id \in DeviceIds : Matches(whois.val, id)
        /\ IsWhois(data)

C12_Witness ==
    /\ data = WhoIsFrame
    /\ data = <<129, 11, 0, 12, 1, 32, 255, 255, 0, 255, 16, 8>>
    /\ whois = Some(NoLimits)

\* C23: for every byte sequence the two decoders return normally, a result
\* or nothing, with no out-of-range slice; a frame with the marker, function
\* 0x04 and fewer than 10 octets is dropped.
C23_DecodersNeverPanic ==
    /\ device # Panic
    /\ reply # Panic
    /\ (Len(data) >= 4 /\ Len(data) < 10 /\ data[1] = BvlcType /\ data[2] = FnForwarded)
          => (device \in {Unset, None} /\ reply \in {Unset, None})

-----------------------------------------------------------------------------
(* What read_device_objects and read_present_value make of a ComplexAck body *)

TypeAnalogInput == 0
TypeAnalogValue == 2
TypeBinaryInput == 3
TypeDevice == 8
TypeUnknown == 1000         \* a code ObjectType::try_from rejects
TagContext0Len4 == 12       \* 0x0C
TagOpening2 == 46           \* 0x2E
TagOpening3 == 62           \* 0x3E
TagClosing3 == 63           \* 0x3F
TagReal == 68               \* 0x44
TagBoolean == 17            \* 0x11
TagUnsigned1 == 33          \* 0x21

\* The object types ObjectType::try_from accepts: the standard types.
KnownObjectTypes == 0..59

ObjId(type, instance) == [type |-> type, instance |-> instance]

\* ((object_type as u32) << 22) | (instance & 0x3FFFFF), big-endian. As a
\* packing that wrote the word low byte first (to_le_bytes) would do:
EncodeObjectId_LittleEndian(o) ==
    <<o.instance % 256,
      (o.instance \div 256) % 256,
      (o.type % 4) * 64 + ((o.instance \div 65536) % 64),
      o.type \div 4>>

EncodeObjectId(o) ==
    <<o.type \div 4,
      (o.type % 4) * 64 + ((o.instance \div 65536) % 64),
      (o.instance \div 256) % 256,
      o.instance % 256>>

\* u32::from_be_bytes; (encoded >> 22) & 0x3FF; encoded & 0x3FFFFF
DecodeObjectId(b) ==
    ObjId(b[1] * 4 + b[2] \div 64, (b[2] % 64) * 65536 + b[3] * 256 + b[4])

\* bacnet.rs:127-151: the scan of the response from the 0-based position pos,
\* with the objects found so far.
RECURSIVE ScanFrom(_, _, _)
ScanFrom(resp, pos, found) ==
    IF ~(pos + 5 <= Len(resp)) THEN found
    ELSE IF resp[pos + 1] = TagObjectId
    THEN LET o == DecodeObjectId(SubSeq(resp, pos + 2, pos + 5)) IN
         ScanFrom(resp, pos + 5,
                  IF o.type \in KnownObjectTypes /\ o.type # TypeDevice
                  THEN Append(found, o) ELSE found)
    ELSE ScanFrom(resp, pos + 1, found)

ScanObjects(resp) == ScanFrom(resp, 0, <<>>)

\* responder.rs:138-152: the body of the ReadPropertyMultiple ack for the
\* object list of the device, given the objects it lists.
RpmAckBody(device_id, listed) ==
    LET RECURSIVE Items(_)
        Items(l) == IF l = <<>> THEN <<>>
                    ELSE <<TagObjectId>> \o EncodeObjectId(Head(l)) \o Items(Tail(l))
    IN <<TagContext0Len4>> \o EncodeObjectId(ObjId(TypeDevice, device_id))
       \o <<30, 41, 76, 78>> \o Items(listed) \o <<79, 31>>

HexDigits == <<"0", "1", "2", "3", "4", "5", "6", "7", "8", "9", "A", "B", "C", "D", "E", "F">>

\* format!("{:02X}", n)
Hex2(n) == HexDigits[(n \div 16) + 1] \o HexDigits[(n % 16) + 1]

\* format!("{:.2}", f32::from_be_bytes(b)) for the finite values of magnitude
\* 1.0 up to 2^24, which are those the peers of the model send: the value is
\* (2^23 + m) * 2^(e - 150), rounded to hundredths, half to even.
FormatReal(b) ==
    LET neg == b[1] \div 128 = 1
        e == (b[1] % 128) * 2 + b[2] \div 128
        m == (b[2] % 128) * 65536 + b[3] * 256 + b[4]
        scaled == (8388608 + m) * 100
        unit == 2 ^ (150 - e)
        q == scaled \div unit
        r == scaled % unit
        h == IF 2 * r > unit \/ (2 * r = unit /\ q % 2 = 1) THEN q + 1 ELSE q
        frac == h % 100
    IN IF e < 127 \/ e > 150 THEN "real"
       ELSE (IF neg THEN "-" ELSE "") \o ToString(h \div 100) \o "."
            \o (IF frac < 10 THEN "0" ELSE "") \o ToString(frac)

\* bacnet.rs:175-200: what read_present_value returns for the response.
RenderValue(resp) ==
    IF Len(resp) >= 3 /\ resp[1] = TagOpening2
    THEN LET val_data == SubSeq(resp, 2, Len(resp) - 1) IN
         IF val_data = <<>> THEN Some("N/A")
         ELSE IF val_data[1] = TagReal
            THEN IF Len(val_data) >= 5 THEN Some(FormatReal(SubSeq(val_data, 2, 5)))
                 ELSE Some("N/A")
         ELSE IF val_data[1] = TagBoolean
            THEN IF Len(val_data) >= 2
                 THEN Some(IF val_data[2] # 0 THEN "Active" ELSE "Inactive")
                 ELSE Some("N/A")
         ELSE IF val_data[1] = TagUnsigned1
            THEN IF Len(val_data) >= 2 THEN Some(ToString(val_data[2])) ELSE Some("N/A")
         ELSE Some("Tag 0x" \o Hex2(val_data[1]))
    ELSE Some("N/A")

\* responder.rs:117-125: the body of the ReadProperty ack for Present_Value.
PropertyAckBody(o, val_bytes) ==
    <<TagContext0Len4>> \o EncodeObjectId(o) \o <<25, 85, TagOpening3>> \o val_bytes \o <<TagClosing3>>

\* responder.rs:110-115: the value the responder reports for an object.
ResponderValue(o) ==
    IF o.type = TypeAnalogInput THEN <<TagReal, 65, 180, 0, 0>>
    ELSE IF o.type = TypeBinaryInput THEN <<TagBoolean, 1>>
    ELSE IF o.type = TypeAnalogValue THEN <<TagReal, 66, 72, 0, 0>>
    ELSE <<TagUnsigned1, 0>>

\* The harness for the two readers: the body of the ack is the input.
MaxListed == 3

RpmDeviceIds == {12345, 50176}

ObjectPool == {ObjId(TypeDevice, 12345), ObjId(TypeAnalogInput, 1), ObjId(TypeBinaryInput, 1),
               ObjId(TypeAnalogValue, 1), ObjId(TypeUnknown, 5)}

\* responder.rs:131-136 with the device id 12345
ExampleList == <<ObjId(TypeDevice, 12345), ObjId(TypeAnalogInput, 1),
                 ObjId(TypeBinaryInput, 1), ObjId(TypeAnalogValue, 1)>>

ObjectLists == UNION {[1..n -> ObjectPool] : n \in 0..MaxListed} \cup {ExampleList}

\* The application-tagged values a peer wraps as the property value.
WrappedValues == {<<TagReal, 65, 180, 0, 0>>, <<TagReal, 66, 72, 0, 0>>, <<TagReal, 193, 180, 0, 0>>,
                  <<TagBoolean, 0>>, <<TagBoolean, 1>>, <<TagBoolean, 255>>,
                  <<TagUnsigned1, 0>>, <<TagUnsigned1, 200>>,
                  <<34, 1, 4>>, <<TagEnumerated1, 3>>}

PolledObjects == {ObjId(TypeAnalogInput, 1), ObjId(TypeBinaryInput, 1), ObjId(TypeAnalogValue, 1)}

BodyInputs ==
    {RpmAckBody(d, l) : d \in RpmDeviceIds, l \in ObjectLists}
    \cup {PropertyAckBody(o, v) : o \in PolledObjects, v \in WrappedValues}
    \cup {<<TagOpening2>> \o v \o <<47>> : v \in WrappedValues}

InitBody ==
    /\ response \in BodyInputs
    /\ whois = Unset /\ objects = Unset /\ value = Unset
    /\ data = <<>> /\ source = "" /\ expected = 0 /\ device = Unset /\ reply = Unset
    /\ sockMode = "nonblocking" /\ csQueue = <<>> /\ wire = {}
    /\ sentCount = 0 /\ pc = NoRequests /\ req = NoRequests
    /\ outcome = NoRequests /\ sawFailure = NoRequests
    /\ nextInvoke = 0 /\ regQueue = <<>> /\ pending = NoRequests /\ slot = NoRequests
    /\ lastRx = NoRx
    /\ AppIdle

\* read_device_objects scans the body send_confirmed_request returned.
CallScanObjects ==
    /\ objects = Unset
    /\ objects' = Some(ScanObjects(response))
    /\ UNCHANGED <<whois, response, value>>
    /\ UNCHANGED codecVars
    /\ UNCHANGED xchgVars
    /\ UNCHANGED dispVars
    /\ UNCHANGED appVars

\* read_present_value renders the body send_confirmed_request returned.
CallRenderValue ==
    /\ value = Unset
    /\ value' = RenderValue(response)
    /\ UNCHANGED <<whois, response, objects>>
    /\ UNCHANGED codecVars
    /\ UNCHANGED xchgVars
    /\ UNCHANGED dispVars
    /\ UNCHANGED appVars

NextBody == CallScanObjects \/ CallRenderValue

SpecBody == InitBody /\ [][NextBody]_vars

\* The listed objects read_device_objects is to return.
Wanted(listed) ==
    SelectSeq(listed, LAMBDA o : o.type \in KnownObjectTypes /\ o.type # TypeDevice)

\* C13: for a ReadPropertyMultiple ack body listing object identifiers as
\* 0xC4-tagged values, read_device_objects returns, in wire order, exactly the
\* listed objects of a known type other than Device.
C13_ListedObjectsReturned ==
    \A d \in RpmDeviceIds, l \in ObjectLists :
        (response = RpmAckBody(d, l) /\ objects # Unset) => objects = Some(Wanted(l))

\* C35: read_device_objects returns nothing but identifiers the ack lists under
\* the 0xC4 tag: a byte 0xC4 in another field of the body, such as the
\* context-0 object identifier of the device at its head, yields no object,
\* and every listed object that is to be returned still is.
C35_OnlyTaggedIdentifiers ==
    \A d \in RpmDeviceIds, l \in ObjectLists :
        (response = RpmAckBody(d, l) /\ objects # Unset) =>
            /\ \A i \in 1..Len(objects.val) : \E k \in 1..Len(l) : objects.val[i] = l[k]
            /\ \A k \in 1..Len(Wanted(l)) :
                   \E i \in 1..Len(objects.val) : objects.val[i] = Wanted(l)[k]

\* C14: for the ReadProperty ack body the responder builds (object identifier,
\* property identifier, value in the context-3 wrapper), read_present_value
\* renders the wrapped value: 0x44 41 B4 00 00 gives "22.50".
C14_ResponderValueRendered ==
    (response = PropertyAckBody(ObjId(TypeAnalogInput, 1), <<TagReal, 65, 180, 0, 0>>) /\ value # Unset)
        => value = Some("22.50")

\* C15: the first application tag inside the property-value wrapper of a
\* present-value ack is rendered by tag: Boolean as "Inactive"/"Active",
\* Unsigned as the decimal byte, Real with two decimals, any other tag NN as
\* "Tag 0xNN", never as "N/A".
C15_RenderedByTag ==
    \A o \in PolledObjects, v \in WrappedValues :
        (response = PropertyAckBody(o, v) /\ value # Unset) =>
            /\ value # Some("N/A")
            /\ v[1] = TagBoolean => value = Some(IF v[2] = 0 THEN "Inactive" ELSE "Active")
            /\ v[1] = TagUnsigned1 => value = Some(ToString(v[2]))
            /\ v[1] = TagReal => value = Some(FormatReal(SubSeq(v, 2, 5)))
            /\ v[1] \notin {TagBoolean, TagUnsigned1, TagReal} => value = Some("Tag 0x" \o Hex2(v[1]))

-----------------------------------------------------------------------------
(* Confirmed requests: what the two exchanges share *)

Requests == 1..MaxReq
Services == {SvcReadPropertyMultiple, SvcReadProperty}
ReplyKinds == {"ComplexAck", "Error", "Reject", "Abort"}
FailureKinds == {"Error", "Reject", "Abort"}
\* The dispatcher never looks at the address a reply comes from (main.rs:116
\* binds it to _addr), so its requests all go to one peer.
Peers == {"10.0.0.5:47808"}

NoRequest == [invoke_id |-> 0, peer |-> "", service |-> 0, expired |-> FALSE]

\* A request whose call has neither returned nor been dropped with its task.
InFlight(r) == pc[r] \notin {"idle", "done", "dropped"}

\* Requests are numbered in the order they are issued.
NextToIssue(r) == pc[r] = "idle" /\ \A q \in Requests : q < r => pc[q] # "idle"

\* main.rs:150-156: the poller awaits each read_present_value before the next,
\* so it has at most one read in flight; each 'd' key press in the object view
\* spawns a task of its own for read_device_objects (main.rs:192).
CallerMayIssue(svc) ==
    svc = SvcReadProperty =>
        \A q \in Requests : ~(InFlight(q) /\ req[q].service = SvcReadProperty)

TimeoutOutcome == [kind |-> "Timeout", body |-> <<>>]
ReplyOutcome(b) == [kind |-> "Reply", body |-> b]

\* The datagram a peer sends back for the request w: the responder's
\* create_complex_ack frame, or an Error, Reject or Abort PDU, carrying the
\* invoke id of the request. The body names the request it answers.
ReplyFrame(kind, invoke_id, service, r) ==
    IF kind = "ComplexAck" THEN ComplexAckFrame(FnUnicast, invoke_id, service, <<62, 33, r, 63>>)
    ELSE IF kind = "Error" THEN ErrorFrame(FnUnicast, invoke_id, service)
    ELSE IF kind = "Reject" THEN RejectFrame(FnUnicast, invoke_id)
    ELSE AbortFrame(FnUnicast, invoke_id)

\* A peer that received the request w answers it. Datagrams are read in the
\* order they arrive, so a peer is let to send when the one before has been
\* read: every order of arrival is still produced.
PeerReply(w, kind) ==
    /\ sentCount < MaxDatagrams
    /\ csQueue = <<>>
    /\ sentCount' = sentCount + 1
    /\ csQueue' = Append(csQueue, [src |-> w.peer,
                                   data |-> ReplyFrame(kind, w.invoke_id, w.service, w.r)])
    /\ UNCHANGED <<sockMode, wire, pc, req, outcome, sawFailure>>
    /\ UNCHANGED codecVars
    /\ UNCHANGED dispVars
    /\ UNCHANGED bodyVars
    /\ UNCHANGED appVars

\* The clock of request r runs from the moment the request has been sent.
ClockRunning(r) == pc[r] \in {"loop", "recv"}

\* Time passes: the request timeout (3 s) of request r, counted from the
\* moment it was sent, has elapsed. The code only ever compares the elapsed
\* time with the timeout, so the clock is kept as that comparison's result.
DeadlinePasses(r) ==
    /\ ClockRunning(r)
    /\ ~req[r].expired
    /\ req' = [req EXCEPT ![r].expired = TRUE]
    /\ UNCHANGED <<sockMode, csQueue, wire, sentCount, pc, outcome, sawFailure>>
    /\ UNCHANGED codecVars
    /\ UNCHANGED dispVars
    /\ UNCHANGED bodyVars
    /\ UNCHANGED appVars

InitExchange ==
    /\ data = <<>> /\ source = "" /\ expected = 0 /\ device = Unset /\ reply = Unset
    /\ csQueue = <<>>
    /\ wire = {}
    /\ sentCount = 0
    /\ pc = [r \in Requests |-> "idle"]
    /\ req = [r \in Requests |-> NoRequest]
    /\ outcome = [r \in Requests |-> <<>>]
    /\ sawFailure = [r \in Requests |-> FALSE]
    /\ nextInvoke = 0
    /\ regQueue = <<>>
    /\ pending = NoRequests
    /\ slot = [r \in Requests |-> <<>>]
    /\ lastRx = NoRx
    /\ BodyIdle
    /\ AppIdle

-----------------------------------------------------------------------------
(* The blocking exchange of bacnet.rs: send_confirmed_request *)

\* read_device_objects passes invoke id 1, read_present_value invoke id 2.
FixedInvokeId(svc) == IF svc = SvcReadPropertyMultiple THEN 1 ELSE 2

\* The request is encoded and sent, and the clock is started: start = Instant::now().
SyncSend(r, svc, peer) ==
    /\ NextToIssue(r)
    /\ CallerMayIssue(svc)
    /\ req' = [req EXCEPT ![r] = [invoke_id |-> FixedInvokeId(svc), peer |-> peer,
                                  service |-> svc, expired |-> FALSE]]
    /\ wire' = wire \cup {[peer |-> peer, invoke_id |-> FixedInvokeId(svc),
                           service |-> svc, r |-> r]}
    /\ pc' = [pc EXCEPT ![r] = "loop"]
    /\ UNCHANGED <<sockMode, csQueue, sentCount, outcome, sawFailure>>
    /\ UNCHANGED codecVars
    /\ UNCHANGED dispVars
    /\ UNCHANGED bodyVars
    /\ UNCHANGED appVars

\* while start.elapsed() < Duration::from_secs(3) { ... } Err(Timeout)
SyncLoopCheck(r) ==
    /\ pc[r] = "loop"
    /\ IF ~req[r].expired
       THEN /\ pc' = [pc EXCEPT ![r] = "recv"]
            /\ UNCHANGED outcome
       ELSE /\ pc' = [pc EXCEPT ![r] = "done"]
            /\ outcome' = [outcome EXCEPT ![r] = Append(@, TimeoutOutcome)]
    /\ UNCHANGED <<sockMode, csQueue, wire, sentCount, req, sawFailure>>
    /\ UNCHANGED codecVars
    /\ UNCHANGED dispVars
    /\ UNCHANGED bodyVars
    /\ UNCHANGED appVars

\* The datagram dg, read by request r, is an Error, Reject or Abort PDU from
\* r's peer carrying r's invoke id.
FailureFor(dg, r) ==
    LET a == DecodeReplyApdu(dg.data) IN
    /\ dg.src = req[r].peer
    /\ a.tag = "Some"
    /\ a.val.type \in FailureKinds
    /\ a.val.invoke_id = req[r].invoke_id

\* What one datagram returned by recv_from does to the loop: a body when it is
\* from the peer and parse_confirmed_response accepts it, else nothing.
SyncAccept(dg, r) ==
    IF dg.src = req[r].peer
    THEN ParseConfirmedResponse(dg.data, req[r].invoke_id)
    ELSE None

\* socket.recv_from returns a datagram.
SyncRecv(r) ==
    /\ pc[r] = "recv"
    /\ csQueue # <<>>
    /\ LET dg == Head(csQueue)
           got == SyncAccept(dg, r)
       IN /\ csQueue' = Tail(csQueue)
          /\ sawFailure' = [sawFailure EXCEPT ![r] = @ \/ FailureFor(dg, r)]
          /\ IF got.tag = "Some"
             THEN /\ pc' = [pc EXCEPT ![r] = "done"]
                  /\ outcome' = [outcome EXCEPT ![r] = Append(@, ReplyOutcome(got.val))]
             ELSE /\ pc' = [pc EXCEPT ![r] = "loop"]
                  /\ UNCHANGED outcome
    /\ UNCHANGED <<sockMode, wire, sentCount, req>>
    /\ UNCHANGED codecVars
    /\ UNCHANGED dispVars
    /\ UNCHANGED bodyVars
    /\ UNCHANGED appVars

\* socket.recv_from returns an error (WouldBlock, or TimedOut when the socket
\* has a read timeout) with nothing to read; on a blocking socket without a
\* read timeout the call does not return.
SyncRecvNothing(r) ==
    /\ pc[r] = "recv"
    /\ csQueue = <<>>
    /\ sockMode # "blocking"
    /\ pc' = [pc EXCEPT ![r] = "loop"]
    /\ UNCHANGED <<sockMode, csQueue, wire, sentCount, req, outcome, sawFailure>>
    /\ UNCHANGED codecVars
    /\ UNCHANGED dispVars
    /\ UNCHANGED bodyVars
    /\ UNCHANGED appVars

SyncStep(r) == SyncLoopCheck(r) \/ SyncRecv(r) \/ SyncRecvNothing(r)

\* The socket the call is given: main.rs:103 binds the client socket blocking and
\* without a read timeout; the receiver task switches it to non-blocking.
InitSync ==
    /\ InitExchange
    /\ sockMode \in {"blocking", "nonblocking"}

NextSync ==
    \/ \E r \in Requests, svc \in Services, peer \in Addrs : SyncSend(r, svc, peer)
    \/ \E r \in Requests : SyncLoopCheck(r)
    \/ \E r \in Requests : SyncRecv(r)
    \/ \E r \in Requests : SyncRecvNothing(r)
    \/ \E w \in wire, kind \in ReplyKinds : PeerReply(w, kind)
    \/ \E r \in Requests : DeadlinePasses(r)

SpecSync == InitSync /\ [][NextSync]_vars

-----------------------------------------------------------------------------
(* Claims about the blocking exchange *)

\* C1: in every reachable state no two outstanding confirmed requests (issued
\* and not yet resolved) carry the same invoke id.
C1_OutstandingIdsDistinct ==
    \A q, r \in Requests :
        (q # r /\ InFlight(q) /\ InFlight(r)) => req[q].invoke_id # req[r].invoke_id

\* C2: every confirmed request observes exactly one outcome: never two, one
\* when its call has returned, and never none for ever: once its timeout has
\* elapsed the call is able to go on to an outcome.
C2_ExactlyOneOutcome ==
    \A r \in Requests :
        /\ Len(outcome[r]) <= 1
        /\ pc[r] = "done" => Len(outcome[r]) = 1
        /\ (InFlight(r) /\ req[r].expired) => ENABLED SyncStep(r)

\* C4: once an Error, Reject or Abort PDU carrying a request's invoke id has
\* been received from its peer, the request has failed with a classified
\* failure (ProtocolError, Reject or Abort): it is not still pending and has
\* not ended as a Timeout.
C4_FailureClassified ==
    \A r \in Requests :
        sawFailure[r] =>
            /\ pc[r] = "done"
            /\ Len(outcome[r]) = 1
            /\ outcome[r][1].kind \in FailureKinds

\* C5: a confirmed request whose peer never sends a datagram back does not wait
\* once its timeout has elapsed, whatever the mode of the socket: the call is
\* then able to go on, and what it returns is the Timeout failure.
C5_SilentPeerTimesOut ==
    \A r \in Requests :
        sentCount = 0 =>
            /\ (InFlight(r) /\ req[r].expired) => ENABLED SyncStep(r)
            /\ pc[r] = "done" => outcome[r] = <<TimeoutOutcome>>

\* C25: a ComplexAck that answers a request which has timed out is discarded:
\* no other request takes its body as its result.
C25_LateAckDiscarded ==
    \A q \in Requests, r \in Requests :
        (q # r /\ outcome[q] # <<>> /\ outcome[q][Len(outcome[q])].kind = "Timeout")
            => \A i \in 1..Len(outcome[r]) :
                   outcome[r][i].kind = "Reply" => outcome[r][i].body # <<62, 33, q, 63>>

-----------------------------------------------------------------------------
(* The dispatcher of main.rs: invoke-id allocation, the registration task, the
   receiver task's client-socket branch, and the requester awaiting its slot *)

IdSpace == 256               \* invoke ids are u8
RegisterCapacity == 100      \* mpsc::channel(100)
EventCapacity == 100         \* mpsc::channel(100), the AppEvent channel

\* App::get_next_invoke_id as the dispatcher is specified: the rolling counter,
\* skipping values that are in the pending table.
\* As a bare rolling counter would do, handing out its value whether or not a
\* pending request holds it:
GetNextInvokeId_NoSkip == nextInvoke

GetNextInvokeId ==
    LET k == CHOOSE k \in 0..(IdSpace - 1) :
                 /\ (nextInvoke + k) % IdSpace \notin DOMAIN pending
                 /\ \A j \in 0..(k - 1) : (nextInvoke + j) % IdSpace \in DOMAIN pending
    IN (nextInvoke + k) % IdSpace

\* Some invoke id is not in the pending table.
SlotFree == (0..(IdSpace - 1)) \ DOMAIN pending # {}

\* main.rs:151 and main.rs:191: the caller takes an invoke id under the App lock
\* and calls the facade with it. With every id in use the allocation waits.
AllocateId(r, svc, peer) ==
    /\ NextToIssue(r)
    /\ CallerMayIssue(svc)
    /\ SlotFree
    /\ LET id == GetNextInvokeId IN
       /\ req' = [req EXCEPT ![r] = [invoke_id |-> id, peer |-> peer,
                                     service |-> svc, expired |-> FALSE]]
       /\ nextInvoke' = (id + 1) % IdSpace
    /\ pc' = [pc EXCEPT ![r] = "register"]
    /\ UNCHANGED <<sockMode, csQueue, wire, sentCount, outcome, sawFailure>>
    /\ UNCHANGED <<regQueue, pending, slot, lastRx>>
    /\ UNCHANGED codecVars
    /\ UNCHANGED bodyVars

Allocate(r, svc, peer) ==
    /\ AllocateId(r, svc, peer)
    /\ UNCHANGED appVars

\* The facade creates its oneshot slot and sends (invoke id, sender) on
\* tx_register.
RegisterSend(r) ==
    /\ pc[r] = "register"
    /\ Len(regQueue) < RegisterCapacity
    /\ regQueue' = Append(regQueue, [invoke_id |-> req[r].invoke_id, slot |-> r])
    /\ pc' = [pc EXCEPT ![r] = "send"]
    /\ UNCHANGED <<sockMode, csQueue, wire, sentCount, req, outcome, sawFailure>>
    /\ UNCHANGED <<nextInvoke, pending, slot, lastRx>>
    /\ UNCHANGED codecVars
    /\ UNCHANGED bodyVars
    /\ UNCHANGED appVars

\* A transmission: the socket it went out on and what it was.
Sent(sock, kind) == [sock |-> sock, kind |-> kind]

\* main.rs:152 and main.rs:189-192: the socket the callers hand to the facade
\* is the client socket. As callers that handed it the discovery socket would do:
RequestSocket_Discovery == "discovery"

RequestSocket == "client"

\* The facade transmits the request on the socket it was given and starts waiting.
Transmit(r) ==
    /\ pc[r] = "send"
    /\ wire' = wire \cup {[peer |-> req[r].peer, invoke_id |-> req[r].invoke_id,
                           service |-> req[r].service, r |-> r]}
    /\ txLog' = txLog \cup {Sent(RequestSocket, "ConfirmedRequest")}
    /\ pc' = [pc EXCEPT ![r] = "await"]
    /\ UNCHANGED <<sockMode, csQueue, sentCount, req, outcome, sawFailure>>
    /\ UNCHANGED dispVars
    /\ UNCHANGED codecVars
    /\ UNCHANGED bodyVars
    /\ UNCHANGED <<dsQueue, heard, events, devices, device_objects, poll>>
    /\ UNCHANGED sessVars

\* The awaited slot holds a body: the call returns it.
AwaitReply(r) ==
    /\ pc[r] = "await"
    /\ slot[r] # <<>>
    /\ outcome' = [outcome EXCEPT ![r] = Append(@, ReplyOutcome(Head(slot[r])))]
    /\ pc' = [pc EXCEPT ![r] = "done"]
    /\ UNCHANGED <<sockMode, csQueue, wire, sentCount, req, sawFailure>>
    /\ UNCHANGED dispVars
    /\ UNCHANGED codecVars
    /\ UNCHANGED bodyVars
    /\ UNCHANGED appVars

\* The request timeout elapses with the slot still empty: the call fails with
\* Timeout and drops the receiving end of its slot. A slot that holds a body
\* when the timer is polled wins, as tokio::time::timeout polls the awaited
\* future first.
AwaitTimeout(r) ==
    /\ pc[r] = "await"
    /\ slot[r] = <<>>
    /\ req' = [req EXCEPT ![r].expired = TRUE]
    /\ outcome' = [outcome EXCEPT ![r] = Append(@, TimeoutOutcome)]
    /\ pc' = [pc EXCEPT ![r] = "done"]
    /\ UNCHANGED <<sockMode, csQueue, wire, sentCount, sawFailure>>
    /\ UNCHANGED dispVars
    /\ UNCHANGED codecVars
    /\ UNCHANGED bodyVars
    /\ UNCHANGED appVars

\* HashMap::insert: the entry for the key is set, whatever was there. As an
\* insertion that keeps an entry already present would do:
Insert_KeepsExisting(map, id, tx) ==
    [k \in DOMAIN map \cup {id} |-> IF k \in DOMAIN map THEN map[k] ELSE tx]

Insert(map, id, tx) ==
    [k \in DOMAIN map \cup {id} |-> IF k = id THEN tx ELSE map[k]]

\* main.rs:53-57: while let Some((invoke_id, tx_res)) = rx_register.recv().await
\* { pending.insert(invoke_id, tx_res) }
RegistrationTask ==
    /\ regQueue # <<>>
    /\ pending' = Insert(pending, Head(regQueue).invoke_id, Head(regQueue).slot)
    /\ regQueue' = Tail(regQueue)
    /\ UNCHANGED <<nextInvoke, slot, lastRx>>
    /\ UNCHANGED xchgVars
    /\ UNCHANGED codecVars
    /\ UNCHANGED bodyVars
    /\ UNCHANGED appVars

\* HashMap::remove: the entry found under the key, and the map without it.
\* As HashMap::get would do, leaving the entry in the map, and as a lookup that
\* settles for another entry when the key is missing:
Remove_KeepsEntry(map, id) ==
    IF id \in DOMAIN map
    THEN [found |-> TRUE, tx |-> map[id], rest |-> map]
    ELSE [found |-> FALSE, tx |-> 0, rest |-> map]

Remove_AnyOnMiss(map, id) ==
    IF id \in DOMAIN map
    THEN [found |-> TRUE, tx |-> map[id], rest |-> [k \in DOMAIN map \ {id} |-> map[k]]]
    ELSE IF DOMAIN map # {}
    THEN LET k0 == CHOOSE k \in DOMAIN map : \A j \in DOMAIN map : k <= j IN
         [found |-> TRUE, tx |-> map[k0], rest |-> [k \in DOMAIN map \ {k0} |-> map[k]]]
    ELSE [found |-> FALSE, tx |-> 0, rest |-> map]

Remove(map, id) ==
    IF id \in DOMAIN map
    THEN [found |-> TRUE, tx |-> map[id], rest |-> [k \in DOMAIN map \ {id} |-> map[k]]]
    ELSE [found |-> FALSE, tx |-> 0, rest |-> map]

\* oneshot::Sender::send: the value reaches the slot while its receiving end is
\* alive; the requester drops that end when its call returns.
SlotSend(r, sdata) ==
    IF pc[r] # "done" THEN [slot EXCEPT ![r] = Append(@, sdata)] ELSE slot

\* main.rs:116-123, the client-socket branch of the receiver task: a datagram is
\* read (its source address is not looked at), parsed, and a parsed body is sent
\* into the slot removed from the pending table under its invoke id.
ReceiverClient ==
    /\ rxHold = None
    /\ csQueue # <<>>
    /\ LET dg == Head(csQueue)
           parsed == ParseConfirmedResponseAny(dg.data)
       IN /\ csQueue' = Tail(csQueue)
          /\ IF parsed.tag = "Some"
             THEN LET got == Remove(pending, parsed.val.id) IN
                  /\ pending' = got.rest
                  /\ slot' = IF got.found THEN SlotSend(got.tx, parsed.val.sdata) ELSE slot
                  /\ lastRx' = [data |-> dg.data, hit |-> got.found]
             ELSE UNCHANGED <<pending, slot, lastRx>>
    /\ UNCHANGED <<sockMode, wire, sentCount, pc, req, outcome, sawFailure>>
    /\ UNCHANGED <<nextInvoke, regQueue>>
    /\ UNCHANGED codecVars
    /\ UNCHANGED bodyVars
    /\ UNCHANGED appVars

\* main.rs:117 has made the client socket non-blocking.
Init ==
    /\ InitExchange
    /\ sockMode = "nonblocking"

Next ==
    \/ \E r \in Requests, svc \in Services, peer \in Peers : Allocate(r, svc, peer)
    \/ \E r \in Requests : RegisterSend(r)
    \/ \E r \in Requests : Transmit(r)
    \/ \E r \in Requests : AwaitReply(r)
    \/ \E r \in Requests : AwaitTimeout(r)
    \/ RegistrationTask
    \/ ReceiverClient
    \/ \E w \in wire, kind \in ReplyKinds : PeerReply(w, kind)

Spec == Init /\ [][Next]_vars

-----------------------------------------------------------------------------
(* Claims about the dispatcher *)

\* The datagram the receiver task reads next is the reply of the given kind to
\* the request w.
HeadIs(kind, w) ==
    /\ csQueue # <<>>
    /\ Head(csQueue).data = ReplyFrame(kind, w.invoke_id, w.service, w.r)

\* The body the peer puts in its ComplexAck to the request w.
AckBody(w) == <<62, 33, w.r, 63>>

\* C3: when the receiver task reads a ComplexAck whose invoke id is that of a
\* pending request, the entry is removed from the pending table, the ack's body
\* is put in the slot of the requester that owns the id, which is waiting, and
\* in no other slot; no requester's slot is ever given a second body.
C3_AckDeliveredOnce ==
    /\ [][ReceiverClient =>
            \A w \in wire :
                (HeadIs("ComplexAck", w) /\ w.invoke_id \in DOMAIN pending) =>
                    LET owner == pending[w.invoke_id] IN
                    /\ w.invoke_id \notin DOMAIN pending'
                    /\ InFlight(owner) => slot'[owner] = Append(slot[owner], AckBody(w))
                    /\ \A q \in Requests \ {owner} : slot'[q] = slot[q]]_vars
    /\ [](\A r \in Requests : Len(slot[r]) <= 1)

\* A second ComplexAck with the id of request 1 has been read after the first
\* was delivered to request 1: it found no entry, and the slot holds one body.
C3_Witness ==
    /\ lastRx.data = ReplyFrame("ComplexAck", req[1].invoke_id, req[1].service, 1)
    /\ ~lastRx.hit
    /\ sentCount = 2
    /\ slot[1] = <<AckBody([r |-> 1])>>
    /\ outcome[1] = <<ReplyOutcome(AckBody([r |-> 1]))>>
    /\ req[1].invoke_id \notin DOMAIN pending

\* C6: no entry is in the pending table once the deadline of its request has
\* expired: each entry is removed by a matching reply or, at the latest, when
\* the deadline expires.
C6_EntryGoneByDeadline ==
    \A k \in DOMAIN pending : ~req[pending[k]].expired

\* C7: a ComplexAck, Error, Reject or Abort whose invoke id is not in the
\* pending table is discarded: when the receiver task reads it, the pending
\* table and every requester's slot, position and outcome stay as they are.
C7_UnknownIdDiscarded ==
    [][ReceiverClient =>
         \A w \in wire, kind \in ReplyKinds :
             (HeadIs(kind, w) /\ w.invoke_id \notin DOMAIN pending) =>
                 /\ pending' = pending
                 /\ slot' = slot
                 /\ pc' = pc
                 /\ outcome' = outcome]_vars

\* A ComplexAck for request 2 has been read before the registration of request 2
\* reached the table, while the table held the entry of request 1: no entry was
\* found, the entry of request 1 is still there and both slots are empty.
C7_Witness ==
    /\ lastRx.data = ReplyFrame("ComplexAck", req[2].invoke_id, req[2].service, 2)
    /\ ~lastRx.hit
    /\ sentCount = 1
    /\ req[2].invoke_id \notin DOMAIN pending
    /\ req[1].invoke_id \in DOMAIN pending
    /\ pending[req[1].invoke_id] = 1
    /\ slot[1] = <<>> /\ slot[2] = <<>>
    /\ pc[2] = "await"

\* C24: the entry of a request is in the pending table before its datagram is
\* transmitted, so a request that waits with an empty slot has its entry, and
\* the receiver has not read its reply without finding the entry.
C24_RegisteredBeforeTransmit ==
    \A r \in Requests :
        (pc[r] = "await" /\ slot[r] = <<>>) =>
            /\ req[r].invoke_id \in DOMAIN pending
            /\ ~(/\ lastRx.data = ReplyFrame("ComplexAck", req[r].invoke_id, req[r].service, r)
                 /\ ~lastRx.hit)

-----------------------------------------------------------------------------
(* Discovery: the discovery socket, the receiver task and the devices map *)

DiscoveryPeers == {1234, 99999}
IAmVendor == 260

\* What reaches port 47808: the I-Am of a device, broadcast from either
\* address, and Who-Is broadcasts (the tool's own among them).
DiscoveryDatagrams ==
    {[src |-> a, data |-> IAmFrame(FnBroadcast, NpduPlain, id, IAmVendor)] :
         a \in Addrs, id \in DiscoveryPeers}
    \cup {[src |-> a, data |-> WhoIsFrame] : a \in Addrs}

DiscoveryArrives(dg) ==
    /\ sockets.ds # "none"
    /\ Len(heard) < MaxHeard
    /\ dsQueue' = Append(dsQueue, dg)
    /\ heard' = Append(heard, dg)
    /\ UNCHANGED <<txLog, events, devices, device_objects, poll>>
    /\ UNCHANGED sessVars
    /\ UNCHANGED codecVars
    /\ UNCHANGED xchgVars
    /\ UNCHANGED dispVars
    /\ UNCHANGED bodyVars

DeviceDiscovered(d) == [kind |-> "DeviceDiscovered", device |-> d]

\* main.rs:125-131, the discovery-socket branch of the receiver task. With the
\* AppEvent channel full, tx_recv.send(..).await suspends the task with the
\* event in hand until the main loop has taken an event out.
ReceiverDiscovery ==
    /\ rxHold = None
    /\ dsQueue # <<>>
    /\ LET dg == Head(dsQueue)
           found == ProcessResponse(dg.data, dg.src)
       IN /\ dsQueue' = Tail(dsQueue)
          /\ IF found.tag = "Some" /\ Len(events) >= EventCapacity
             THEN /\ rxHold' = Some(DeviceDiscovered(found.val))
                  /\ events' = events
             ELSE /\ rxHold' = rxHold
                  /\ events' = IF found.tag = "Some"
                               THEN Append(events, DeviceDiscovered(found.val))
                               ELSE events
    /\ UNCHANGED <<heard, txLog, devices, device_objects, poll>>
    /\ UNCHANGED <<view, sockets, session, at, held, app, spawned>>
    /\ UNCHANGED codecVars
    /\ UNCHANGED xchgVars
    /\ UNCHANGED dispVars
    /\ UNCHANGED bodyVars

\* main.rs:209-213
HandleDeviceDiscovered ==
    /\ events # <<>>
    /\ Head(events).kind = "DeviceDiscovered"
    /\ devices' = Insert(devices, Head(events).device.device_id, Head(events).device)
    /\ events' = Tail(events)
    /\ UNCHANGED <<dsQueue, heard, txLog, device_objects, poll>>
    /\ UNCHANGED sessVars
    /\ UNCHANGED codecVars
    /\ UNCHANGED xchgVars
    /\ UNCHANGED dispVars
    /\ UNCHANGED bodyVars

\* The scans that may be under way at once.
MaxScans == 2

\* The scans under way: the scan tasks in their listen window, and those whose
\* "Scan complete." waits in the channel for the main loop.
ScansUnderWay ==
    spawned.scans
        + Cardinality({k \in 1..Len(events) :
                          /\ events[k].kind = "StatusUpdate"
                          /\ events[k].msg = "Scan complete."})

\* main.rs:169-181, 'd' in the device list: App::clear (app.rs:136-145), then
\* the task is spawned that sends the Who-Is on the discovery socket, sleeps
\* for the listen window and reports "Scan complete.".
Rescan ==
    /\ view = DeviceList
    /\ sockets.ds # "none"
    /\ ScansUnderWay < MaxScans
    /\ devices' = NoRequests
    /\ device_objects' = NoRequests
    /\ app' = [app EXCEPT !.is_scanning = TRUE,
                          !.status_message = "Scanning for devices..."]
    /\ spawned' = [spawned EXCEPT !.scans = @ + 1]
    /\ txLog' = txLog \cup {Sent("discovery", "WhoIs")}
    /\ UNCHANGED <<dsQueue, heard, events, poll>>
    /\ UNCHANGED <<view, sockets, session, rxHold, at, held>>
    /\ UNCHANGED codecVars
    /\ UNCHANGED xchgVars
    /\ UNCHANGED dispVars
    /\ UNCHANGED bodyVars

NextDiscovery ==
    \/ \E dg \in DiscoveryDatagrams : DiscoveryArrives(dg)
    \/ ReceiverDiscovery
    \/ HandleDeviceDiscovered
    \/ Rescan

SpecDiscovery == Init /\ [][NextDiscovery]_vars

\* The device records of the I-Am datagrams among s, in order.
RECURSIVE Decoded(_)
Decoded(s) ==
    IF s = <<>> THEN <<>>
    ELSE LET found == ProcessResponse(Head(s).data, Head(s).src) IN
         (IF found.tag = "Some" THEN <<found.val>> ELSE <<>>) \o Decoded(Tail(s))

\* The records the main loop has handled so far: the channel is first in,
\* first out, and so is the socket.
Handled ==
    LET read == Decoded(Take(heard, Len(heard) - Len(dsQueue)))
    IN Take(read, Len(read) - Len(events))

\* C16: the devices map holds at most one record per device id, and that
\* record is the one built from the most recently handled I-Am for the id.
C16_LatestIAmKept ==
    \A id \in DOMAIN devices :
        /\ devices[id].device_id = id
        /\ \E i \in 1..Len(Handled) :
              /\ Handled[i] = devices[id]
              /\ \A j \in (i + 1)..Len(Handled) : Handled[j].device_id # id

\* A later I-Am of device 1234 from another address has replaced the record.
C16_Witness ==
    /\ 1234 \in DOMAIN devices
    /\ devices[1234].address = "10.0.0.5:47808"
    /\ \E i \in 1..Len(Handled) :
          /\ Handled[i].device_id = 1234
          /\ Handled[i].address = "192.168.1.100:47808"

-----------------------------------------------------------------------------
(* The poller task over the dispatcher *)

\* bacnet.rs:138-144: a point as read_device_objects creates it; last_updated
\* is kept as the number of times the point has been stamped.
Point(o) == [id |-> o, present_value |-> "N/A", last_updated |-> 0]

PeerAddress(id) == IF id = 1234 THEN "192.168.1.100:47808" ELSE "10.0.0.5:47808"

\* The record process_response builds from the I-Am of the device.
KnownDevice(id) ==
    ProcessResponse(IAmFrame(FnBroadcast, NpduPlain, id, IAmVendor), PeerAddress(id)).val

PointLists == {<<>>, <<Point(ObjId(TypeAnalogInput, 1))>>,
               <<Point(ObjId(TypeAnalogInput, 1)), Point(ObjId(TypeBinaryInput, 1))>>}

\* The maps discovery and the object reads leave behind: a device may have
\* points and no device record, when a rescan came between the two.
DeviceMaps == {[id \in S |-> KnownDevice(id)] : S \in SUBSET DiscoveryPeers}
ObjectMaps == UNION {[S -> PointLists] : S \in SUBSET DiscoveryPeers}

\* The poller is spawned asleep (main.rs:143-145); each object read so far has
\* taken one invoke id.
InitPoll ==
    /\ data = <<>> /\ source = "" /\ expected = 0 /\ device = Unset /\ reply = Unset
    /\ sockMode = "nonblocking" /\ csQueue = <<>> /\ wire = {} /\ sentCount = 0
    /\ pc = [r \in Requests |-> "idle"]
    /\ req = [r \in Requests |-> NoRequest]
    /\ outcome = [r \in Requests |-> <<>>]
    /\ sawFailure = [r \in Requests |-> FALSE]
    /\ regQueue = <<>> /\ pending = NoRequests
    /\ slot = [r \in Requests |-> <<>>]
    /\ lastRx = NoRx
    /\ BodyIdle
    /\ dsQueue = <<>> /\ heard = <<>> /\ txLog = {} /\ events = <<>>
    /\ poll = PollIdle
    /\ SessionIdle
    /\ devices \in DeviceMaps
    /\ device_objects \in ObjectMaps
    /\ nextInvoke = Cardinality(DOMAIN device_objects)

Target(device_id, address, o) == [device_id |-> device_id, address |-> address, object |-> o]

\* The orders a HashMap may iterate its keys in.
Orders(S) == {s \in [1..Cardinality(S) -> S] : \A i, j \in DOMAIN s : i # j => s[i] # s[j]}

\* main.rs:148-150: the reads of one sweep, for the snapshots of the two maps
\* and the order the objects map is iterated in. As a poller that did not look
\* the device up would do:
RECURSIVE SweepTargets_AnyDevice(_, _, _)
SweepTargets_AnyDevice(objs, devs, order) ==
    IF order = <<>> THEN <<>>
    ELSE LET id == Head(order) IN
         [i \in 1..Len(objs[id]) |-> Target(id, PeerAddress(id), objs[id][i].id)]
         \o SweepTargets_AnyDevice(objs, devs, Tail(order))

RECURSIVE SweepTargets(_, _, _)
SweepTargets(objs, devs, order) ==
    IF order = <<>> THEN <<>>
    ELSE LET id == Head(order) IN
         (IF id \in DOMAIN devs
          THEN [i \in 1..Len(objs[id]) |-> Target(id, devs[id].address, objs[id][i].id)]
          ELSE <<>>)
         \o SweepTargets(objs, devs, Tail(order))

\* main.rs:145-148: the sleep ends and the poller clones the two maps.
PollWake ==
    /\ poll.pc = "sleep"
    /\ poll.sweeps < MaxSweeps
    /\ \E order \in Orders(DOMAIN device_objects) :
          poll' = [poll EXCEPT !.pc = "next", !.tried = <<>>, !.spaced = TRUE,
                               !.todo = SweepTargets(device_objects, devices, order)]
    /\ UNCHANGED <<dsQueue, heard, txLog, events, devices, device_objects>>
    /\ UNCHANGED sessVars
    /\ UNCHANGED codecVars
    /\ UNCHANGED xchgVars
    /\ UNCHANGED dispVars
    /\ UNCHANGED bodyVars

\* main.rs:151: the next point of the sweep; the poller takes an invoke id and
\* calls read_present_value.
PollIssue(r) ==
    /\ poll.pc = "next"
    /\ poll.todo # <<>>
    /\ AllocateId(r, SvcReadProperty, Head(poll.todo).address)
    /\ poll' = [poll EXCEPT !.pc = "read", !.id = r, !.spaced = FALSE,
                            !.tried = Append(@, Head(poll.todo)),
                            !.asked = Insert(@, r, Head(poll.todo))]
    /\ UNCHANGED <<dsQueue, heard, txLog, events, devices, device_objects>>
    /\ UNCHANGED sessVars

\* The loops are through: the poller goes back to sleep.
PollSweepDone ==
    /\ poll.pc = "next"
    /\ poll.todo = <<>>
    /\ poll' = [poll EXCEPT !.pc = "sleep", !.sweeps = @ + 1]
    /\ UNCHANGED <<dsQueue, heard, txLog, events, devices, device_objects>>
    /\ UNCHANGED sessVars
    /\ UNCHANGED codecVars
    /\ UNCHANGED xchgVars
    /\ UNCHANGED dispVars
    /\ UNCHANGED bodyVars

\* main.rs:155: the 100 ms after a read have passed.
PollPaused ==
    /\ poll.pc = "pause"
    /\ poll' = [poll EXCEPT !.pc = "next", !.spaced = TRUE]
    /\ UNCHANGED <<dsQueue, heard, txLog, events, devices, device_objects>>
    /\ UNCHANGED sessVars
    /\ UNCHANGED codecVars
    /\ UNCHANGED xchgVars
    /\ UNCHANGED dispVars
    /\ UNCHANGED bodyVars

PointUpdated(device_id, o, val) ==
    [kind |-> "PointUpdated", device_id |-> device_id, object |-> o, value |-> val]

\* main.rs:152-154: what the poller sends to the main loop for the outcome o of
\* the read of t. As a poller that reported failed reads too would do:
PollEmits_OnFailure(t, o) ==
    IF o.kind = "Reply"
    THEN <<PointUpdated(t.device_id, t.object, RenderValue(o.body).val)>>
    ELSE <<PointUpdated(t.device_id, t.object, "N/A")>>

PollEmits(t, o) ==
    IF o.kind = "Reply"
    THEN <<PointUpdated(t.device_id, t.object, RenderValue(o.body).val)>>
    ELSE <<>>

\* main.rs:150-156: the reads left of the sweep after the outcome o. As a loop
\* that a failed read broke out of would do:
Remaining_StopsOnFailure(todo, o) == IF o.kind = "Reply" THEN Tail(todo) ELSE <<>>

Remaining(todo, o) == Tail(todo)

\* main.rs:155: where the poller stands once a read has returned: in the
\* sleep of 100 ms. As a poller without that sleep would do, going straight
\* on to the next point:
AfterRead_NoPause == "next"

AfterRead == "pause"

\* main.rs:152-154: read_present_value has returned to the poller.
PollResult ==
    /\ poll.pc = "read"
    /\ pc[poll.id] = "done"
    /\ LET o == outcome[poll.id][Len(outcome[poll.id])] IN
       /\ events' = events \o PollEmits(Head(poll.todo), o)
       /\ poll' = [poll EXCEPT !.pc = AfterRead, !.todo = Remaining(@, o)]
    /\ UNCHANGED <<dsQueue, heard, txLog, devices, device_objects>>
    /\ UNCHANGED sessVars
    /\ UNCHANGED codecVars
    /\ UNCHANGED xchgVars
    /\ UNCHANGED dispVars
    /\ UNCHANGED bodyVars

\* main.rs:222-227: the point with the object id, if the device has one, takes
\* the value and is stamped.
UpdatePoint(points, o, val) ==
    IF \E i \in 1..Len(points) : points[i].id = o
    THEN LET k == CHOOSE i \in 1..Len(points) :
                     points[i].id = o /\ \A j \in 1..(i - 1) : points[j].id # o
         IN [points EXCEPT ![k] = [@ EXCEPT !.present_value = val,
                                            !.last_updated = @ + 1]]
    ELSE points

\* main.rs:219-228
HandlePointUpdated ==
    /\ events # <<>>
    /\ Head(events).kind = "PointUpdated"
    /\ LET e == Head(events) IN
       device_objects' =
           IF e.device_id \in DOMAIN device_objects
           THEN [device_objects EXCEPT ![e.device_id] = UpdatePoint(@, e.object, e.value)]
           ELSE device_objects
    /\ events' = Tail(events)
    /\ UNCHANGED <<dsQueue, heard, txLog, devices, poll>>
    /\ UNCHANGED sessVars
    /\ UNCHANGED codecVars
    /\ UNCHANGED xchgVars
    /\ UNCHANGED dispVars
    /\ UNCHANGED bodyVars

\* The peers of the poller answer with a ComplexAck or an Error PDU, or not at all.
PollReplyKinds == {"ComplexAck", "Error"}

NextPoll ==
    \/ PollWake
    \/ \E r \in Requests : PollIssue(r)
    \/ PollSweepDone
    \/ PollResult
    \/ PollPaused
    \/ HandlePointUpdated
    \/ \E r \in Requests : RegisterSend(r)
    \/ \E r \in Requests : Transmit(r)
    \/ \E r \in Requests : AwaitReply(r)
    \/ \E r \in Requests : AwaitTimeout(r)
    \/ RegistrationTask
    \/ ReceiverClient
    \/ \E w \in wire, kind \in PollReplyKinds : PeerReply(w, kind)

SpecPoll == InitPoll /\ [][NextPoll]_vars

\* The read r has returned to the poller, and with which outcome.
Returned(r) ==
    /\ r \in DOMAIN poll.asked
    /\ pc[r] = "done"
    /\ ~(poll.pc = "read" /\ poll.id = r)

Failed(r) == Returned(r) /\ outcome[r][Len(outcome[r])].kind = "Timeout"
Succeeded(r) == Returned(r) /\ outcome[r][Len(outcome[r])].kind = "Reply"

\* The successful reads of the point whose update the main loop has handled.
Applied(d, o) ==
    Cardinality({r \in DOMAIN poll.asked :
                    poll.asked[r].device_id = d /\ poll.asked[r].object = o /\ Succeeded(r)})
    - Cardinality({k \in 1..Len(events) : events[k].device_id = d /\ events[k].object = o})

\* The reads of the sweep under way: those made and those to come.
Planned ==
    IF poll.pc = "read" THEN poll.tried \o Tail(poll.todo) ELSE poll.tried \o poll.todo

\* C17: a failed read leaves the cache alone: each point has been stamped once
\* per successful read of that very point and holds its first value until
\* then; a point whose read failed is part of every sweep under way.
C17_FailedReadLeavesCache ==
    /\ \A d \in DOMAIN device_objects : \A i \in 1..Len(device_objects[d]) :
          LET p == device_objects[d][i] IN
          /\ p.last_updated = Applied(d, p.id)
          /\ p.last_updated = 0 => p.present_value = "N/A"
    /\ \A r \in DOMAIN poll.asked :
          (Failed(r) /\ poll.pc # "sleep") =>
              \E k \in 1..Len(Planned) : Planned[k] = poll.asked[r]

\* The first read of a point timed out, the point is untouched, and the next
\* sweep has asked for it again.
C17_Witness ==
    /\ poll.sweeps >= 1
    /\ \E r1, r2 \in DOMAIN poll.asked :
          /\ r1 < r2
          /\ poll.asked[r1] = poll.asked[r2]
          /\ Failed(r1)
          /\ wire # {}
          /\ LET d == poll.asked[r1].device_id IN
             \E i \in 1..Len(device_objects[d]) :
                /\ device_objects[d][i].id = poll.asked[r1].object
                /\ device_objects[d][i].last_updated = 0

\* No point of a device the devices map knows.
NothingToPoll ==
    \A d \in DOMAIN device_objects : d \notin DOMAIN devices \/ device_objects[d] = <<>>

\* C18: while there is no point to poll, the poll cycles send no datagram,
\* register no pending request and take no invoke id.
C18_NothingToPollNoTraffic ==
    NothingToPoll =>
        /\ wire = {}
        /\ regQueue = <<>>
        /\ DOMAIN pending = {}
        /\ nextInvoke = Cardinality(DOMAIN device_objects)
        /\ \A r \in Requests : pc[r] = "idle"

\* Two cycles have run over points of a device the devices map does not hold.
C18_Witness ==
    /\ poll.sweeps >= 2
    /\ NothingToPoll
    /\ DOMAIN devices # {}
    /\ \E d \in DOMAIN device_objects : device_objects[d] # <<>>
    /\ wire = {}

\* C19: in every sweep each point of each known device is attempted once,
\* whatever the outcome of the reads before it: the reads made and those to
\* come are the points of the known devices, each once; a read that has returned
\* leaves the poller at the next point, and the end of a sweep leaves it asleep
\* for the next one.
C19_SweepReachesEveryPoint ==
    /\ poll.pc # "sleep" =>
          \E order \in Orders(DOMAIN device_objects) :
              Planned = SweepTargets(device_objects, devices, order)
    /\ (poll.pc = "read" /\ pc[poll.id] = "done") => ENABLED PollResult
    /\ (poll.pc = "next" /\ poll.todo = <<>>) => ENABLED PollSweepDone
    /\ (poll.pc = "sleep" /\ poll.sweeps < MaxSweeps) => ENABLED PollWake

\* The device read first never answered and its read timed out; the point of
\* the other device was read in the same sweep, and the next sweep has begun.
C19_Witness ==
    /\ poll.sweeps >= 1
    /\ poll.pc = "next"
    /\ sentCount = 0
    /\ \E r1, r2 \in DOMAIN poll.asked :
          /\ r1 < r2
          /\ Failed(r1)
          /\ Returned(r2)
          /\ poll.asked[r1].device_id # poll.asked[r2].device_id

-----------------------------------------------------------------------------
(* The two sockets: who sends what where, and who reads what *)

RoleRequests == 1..MaxRoleReq

\* Unsolicited broadcasts: the I-Am of a device and a Who-Is.
Broadcasts ==
    {[src |-> PeerAddress(1234), data |-> IAmFrame(FnBroadcast, NpduPlain, 1234, IAmVendor)],
     [src |-> PeerAddress(99999), data |-> WhoIsFrame]}

\* A broadcast reaches port 47808.
BroadcastOnDiscovery(dg) ==
    /\ sentCount < MaxDatagrams
    /\ sentCount' = sentCount + 1
    /\ dsQueue' = Append(dsQueue, dg)
    /\ heard' = Append(heard, dg)
    /\ UNCHANGED <<txLog, events, devices, device_objects, poll>>
    /\ UNCHANGED sessVars
    /\ UNCHANGED <<sockMode, csQueue, wire, pc, req, outcome, sawFailure>>
    /\ UNCHANGED codecVars
    /\ UNCHANGED dispVars
    /\ UNCHANGED bodyVars

\* The ComplexAck for the request w reaches port 47808 instead of the port the
\* request came from.
AckOnDiscovery(w) ==
    BroadcastOnDiscovery([src |-> w.peer,
                          data |-> ReplyFrame("ComplexAck", w.invoke_id, w.service, w.r)])

\* A broadcast reaches the port of the client socket.
BroadcastOnClient(dg) ==
    /\ sentCount < MaxDatagrams
    /\ csQueue = <<>>
    /\ sentCount' = sentCount + 1
    /\ csQueue' = Append(csQueue, dg)
    /\ UNCHANGED <<sockMode, wire, pc, req, outcome, sawFailure>>
    /\ UNCHANGED codecVars
    /\ UNCHANGED dispVars
    /\ UNCHANGED bodyVars
    /\ UNCHANGED appVars

NextRoles ==
    \/ Rescan
    \/ \E r \in RoleRequests, svc \in Services, peer \in Peers : Allocate(r, svc, peer)
    \/ \E r \in RoleRequests : RegisterSend(r)
    \/ \E r \in RoleRequests : Transmit(r)
    \/ \E r \in RoleRequests : AwaitReply(r)
    \/ \E r \in RoleRequests : AwaitTimeout(r)
    \/ RegistrationTask
    \/ ReceiverClient
    \/ ReceiverDiscovery
    \/ HandleDeviceDiscovered
    \/ \E w \in wire : PeerReply(w, "ComplexAck")
    \/ \E w \in wire : AckOnDiscovery(w)
    \/ \E dg \in Broadcasts : BroadcastOnDiscovery(dg)
    \/ \E dg \in Broadcasts : BroadcastOnClient(dg)

SpecRoles == Init /\ [][NextRoles]_vars

IsBroadcast(d) == \E dg \in Broadcasts : dg.data = d

\* C20: socket roles are never mixed: confirmed requests go out on the client
\* socket only and Who-Is on the discovery socket only; a step of the receiver
\* that reads the discovery socket delivers nothing to a pending request; and a
\* step that reads an I-Am or a Who-Is from the client socket delivers nothing
\* either.
C20_RolesNeverMixed ==
    /\ [](\A e \in txLog : /\ e.kind = "ConfirmedRequest" => e.sock = "client"
                           /\ e.kind = "WhoIs" => e.sock = "discovery")
    /\ [][ReceiverDiscovery => UNCHANGED <<pending, slot, outcome>>]_vars
    /\ [][(ReceiverClient /\ IsBroadcast(Head(csQueue).data))
             => UNCHANGED <<pending, slot, outcome>>]_vars
    /\ [](\A r \in Requests : \A i \in 1..Len(slot[r]) : slot[r][i] = <<62, 33, r, 63>>)

\* Both sockets have been used for sending, and the ComplexAck carrying the
\* invoke id of the pending request was read from the discovery socket: the
\* request is still waiting, its entry is still in the table.
C20_Witness ==
    /\ txLog = {Sent("client", "ConfirmedRequest"), Sent("discovery", "WhoIs")}
    /\ dsQueue = <<>>
    /\ pc[1] = "await"
    /\ slot[1] = <<>>
    /\ req[1].invoke_id \in DOMAIN pending
    /\ \E k \in 1..Len(heard) :
          heard[k].data = ReplyFrame("ComplexAck", req[1].invoke_id, req[1].service, 1)

-----------------------------------------------------------------------------
(* Invoke-id allocation against a pending table that is full or nearly full *)

AllIds == 0..(IdSpace - 1)

\* The ids an earlier request may be answered on, and so freed.
Released == {0, 7, 255}

\* Pending tables at the start: every id in use, every id but one, a block of
\* ids in use ahead of the counter, and none. The entries are of requests
\* issued earlier, whose slots (0) are not among Requests.
AllocTables ==
    {[id \in AllIds |-> 0]}
        \cup {[id \in AllIds \ {h} |-> 0] : h \in Released}
        \cup {[id \in 0..7 |-> 0], [id \in 254..255 |-> 0], NoRequests}

AllocCounters == {0, 7, 8, 254, 255}

InitAlloc ==
    /\ data = <<>> /\ source = "" /\ expected = 0 /\ device = Unset /\ reply = Unset
    /\ sockMode = "nonblocking" /\ csQueue = <<>> /\ wire = {} /\ sentCount = 0
    /\ pc = [r \in Requests |-> "idle"]
    /\ req = [r \in Requests |-> NoRequest]
    /\ outcome = [r \in Requests |-> <<>>]
    /\ sawFailure = [r \in Requests |-> FALSE]
    /\ regQueue = <<>>
    /\ slot = [r \in Requests |-> <<>>]
    /\ lastRx = NoRx
    /\ BodyIdle
    /\ AppIdle
    /\ pending \in AllocTables
    /\ nextInvoke \in AllocCounters

\* main.rs:120-121: the receiver removes the entry of an earlier request that
\* has been answered.
EntryRemoved(id) ==
    /\ id \in DOMAIN pending
    /\ pending[id] \notin Requests
    /\ pending' = [k \in DOMAIN pending \ {id} |-> pending[k]]
    /\ UNCHANGED <<nextInvoke, regQueue, slot, lastRx>>
    /\ UNCHANGED xchgVars
    /\ UNCHANGED codecVars
    /\ UNCHANGED bodyVars
    /\ UNCHANGED appVars

NextAlloc ==
    \/ \E r \in Requests, peer \in Peers : Allocate(r, SvcReadPropertyMultiple, peer)
    \/ \E r \in Requests : RegisterSend(r)
    \/ RegistrationTask
    \/ \E id \in Released : EntryRemoved(id)

SpecAlloc == InitAlloc /\ [][NextAlloc]_vars

\* The number of steps up the ring of ids from a to b.
RingDistance(a, b) == (b - a + IdSpace) % IdSpace

-----------------------------------------------------------------------------
(* The session: the key handlers of the main loop that select the interface,
   move between the views and quit *)

\* main.rs:85-161, Enter in the interface list: select_interface, and with an
\* interface index set (main.rs:88) the two sockets are bound, and the receiver and the poller are aborted and spawned
\* anew. port_free is whether create_shared_socket(47808) succeeds. The new
\* sockets have nothing in their buffers; what the aborted tasks were waiting
\* for is dropped with them, and a reply to a request sent from the old client
\* socket reaches no socket that is read.
SelectInterface(port_free) ==
    /\ view = InterfaceSelect
    /\ app' = AppSelectInterface(app)
    /\ view' = IF app.interface_list_state # None THEN DeviceList ELSE view
    /\ IF AppSelectInterface(app).selected_interface_index # None
       THEN /\ sockets' = IF port_free THEN SocketsBound ELSE SocketsFallback
            /\ dsQueue' = <<>>
            /\ csQueue' = <<>>
            /\ wire' = {}
            /\ rxHold' = None
            /\ poll' = [poll EXCEPT !.pc = "sleep", !.todo = <<>>, !.tried = <<>>, !.spaced = FALSE]
            /\ pc' = [r \in Requests |->
                         IF poll.pc = "read" /\ poll.id = r /\ InFlight(r) THEN "dropped" ELSE pc[r]]
       ELSE UNCHANGED <<sockets, dsQueue, csQueue, wire, rxHold, poll, pc>>
    /\ UNCHANGED <<sockMode, sentCount, req, outcome, sawFailure>>
    /\ UNCHANGED <<heard, txLog, events, devices, device_objects, session, at, held, spawned>>
    /\ UNCHANGED codecVars
    /\ UNCHANGED dispVars
    /\ UNCHANGED bodyVars

\* app.rs:157-159: the rows of the device list are the keys of the devices
\* map at the moment of the key press, sorted. As a list whose rows were kept
\* from before the last rescan would do:
DeviceRows_Stale(devs) == DiscoveryPeers

DeviceRows(devs) == DOMAIN devs

\* app.rs:155-169, Enter in the device list: any of its rows may be the
\* selected one.
EnterDevice(id) ==
    /\ view = DeviceList
    /\ id \in DeviceRows(devices)
    /\ view' = ObjectList(id)
    /\ app' = [app EXCEPT !.status_message = "Viewing device. Press 'Esc' to go back, 'd' to discover points"]
    /\ UNCHANGED <<sockets, session, rxHold, at, held, spawned>>
    /\ UNCHANGED <<dsQueue, heard, txLog, events, devices, device_objects, poll>>
    /\ UNCHANGED codecVars
    /\ UNCHANGED xchgVars
    /\ UNCHANGED dispVars
    /\ UNCHANGED bodyVars

\* app.rs:171-183, Esc.
ExitView ==
    /\ view # InterfaceSelect
    /\ view' = IF view.kind = "ObjectList" THEN DeviceList ELSE InterfaceSelect
    /\ app' = [app EXCEPT !.status_message =
                   IF view.kind = "ObjectList"
                   THEN "Press 'd' to discover devices, 'Enter' to view points, 'q' to quit"
                   ELSE "Select an interface and press 'Enter'"]
    /\ UNCHANGED <<sockets, session, rxHold, at, held, spawned>>
    /\ UNCHANGED <<dsQueue, heard, txLog, events, devices, device_objects, poll>>
    /\ UNCHANGED codecVars
    /\ UNCHANGED xchgVars
    /\ UNCHANGED dispVars
    /\ UNCHANGED bodyVars

\* App::new (app.rs:49-68) and main.rs:46-74: the interface list is shown and
\* no socket is bound yet.
InitStartup ==
    /\ data = <<>> /\ source = "" /\ expected = 0 /\ device = Unset /\ reply = Unset
    /\ sockMode = "nonblocking" /\ csQueue = <<>> /\ wire = {} /\ sentCount = 0
    /\ pc = [r \in Requests |-> "idle"]
    /\ req = [r \in Requests |-> NoRequest]
    /\ outcome = [r \in Requests |-> <<>>]
    /\ sawFailure = [r \in Requests |-> FALSE]
    /\ nextInvoke = 0 /\ regQueue = <<>> /\ pending = NoRequests
    /\ slot = [r \in Requests |-> <<>>]
    /\ lastRx = NoRx
    /\ BodyIdle
    /\ dsQueue = <<>> /\ heard = <<>> /\ txLog = {} /\ events = <<>>
    /\ devices = NoRequests /\ device_objects = NoRequests
    /\ poll = PollIdle
    /\ view = InterfaceSelect /\ sockets = NoSockets /\ session = "running"
    /\ rxHold = None
    /\ at = TaskStart /\ held = [t \in Tasks |-> {}]
    /\ app = AppNew(1) /\ spawned = NoneSpawned

NextStartup ==
    \/ \E port_free \in BOOLEAN : SelectInterface(port_free)
    \/ ExitView
    \/ \E dg \in DiscoveryDatagrams : DiscoveryArrives(dg)
    \/ ReceiverDiscovery
    \/ HandleDeviceDiscovered
    \/ Rescan

SpecStartup == InitStartup /\ [][NextStartup]_vars

\* C21: when port 47808 cannot be bound, start-up fails: the session does not
\* go on with a discovery socket on another port, and no Who-Is is sent from
\* such a socket.
C21_BindFailureIsFatal ==
    /\ sockets.ds # "ephemeral"
    /\ (sockets.ds # "47808" => Sent("discovery", "WhoIs") \notin txLog)

\* main.rs:84 and main.rs:237-241, 'q': the loop is left, the terminal is
\* restored and main returns. The runtime goes down with it, and every task
\* still running is dropped where it stands: a request in flight gets no
\* outcome, and its entry stays in the pending table.
Quit ==
    /\ session = "running"
    /\ session' = "ended"
    /\ pc' = [r \in Requests |-> IF InFlight(r) THEN "dropped" ELSE pc[r]]
    /\ UNCHANGED <<sockMode, csQueue, wire, sentCount, req, outcome, sawFailure>>
    /\ UNCHANGED <<view, sockets, rxHold, at, held, app, spawned>>
    /\ UNCHANGED <<dsQueue, heard, txLog, events, devices, device_objects, poll>>
    /\ UNCHANGED codecVars
    /\ UNCHANGED dispVars
    /\ UNCHANGED bodyVars

\* The dispatcher while the session runs, and the quit key.
NextShutdown ==
    \/ session = "running" /\ Next
    \/ Quit

SpecShutdown == Init /\ [][NextShutdown]_vars

\* C22: once the session has ended, no request is left unresolved: a request
\* that was pending when the user quit has an outcome, and it is Cancelled.
C22_PendingCancelledOnQuit ==
    session = "ended" =>
        \A r \in Requests :
            pc[r] \notin {"idle", "done"} =>
                /\ outcome[r] # <<>>
                /\ outcome[r][Len(outcome[r])].kind = "Cancelled"

-----------------------------------------------------------------------------
(* The AppEvent channel under backpressure: the main loop has fallen behind
   and the channel is full of Tick events *)

MaxDrained == 2

Tick == [kind |-> "Tick"]

\* main.rs:129: a place in the channel has come free and the suspended send
\* completes; the receiver goes on to yield_now and its next round.
ReceiverResume ==
    /\ rxHold # None
    /\ Len(events) < EventCapacity
    /\ events' = Append(events, rxHold.val)
    /\ rxHold' = None
    /\ UNCHANGED <<view, sockets, session, at, held, app, spawned>>
    /\ UNCHANGED <<dsQueue, heard, txLog, devices, device_objects, poll>>
    /\ UNCHANGED codecVars
    /\ UNCHANGED xchgVars
    /\ UNCHANGED dispVars
    /\ UNCHANGED bodyVars

\* main.rs:79 and :232: the main loop takes a Tick out of the channel. The
\* backlog is followed from a full channel down to MaxDrained free places.
HandleTick ==
    /\ events # <<>>
    /\ Head(events) = Tick
    /\ Len(events) > EventCapacity - MaxDrained
    /\ events' = Tail(events)
    /\ UNCHANGED <<dsQueue, heard, txLog, devices, device_objects, poll>>
    /\ UNCHANGED sessVars
    /\ UNCHANGED codecVars
    /\ UNCHANGED xchgVars
    /\ UNCHANGED dispVars
    /\ UNCHANGED bodyVars

\* The session with the channel full of the Tick events the input task sends
\* every 100 ms (main.rs:67).
InitBackpressure ==
    /\ data = <<>> /\ source = "" /\ expected = 0 /\ device = Unset /\ reply = Unset
    /\ sockMode = "nonblocking" /\ csQueue = <<>> /\ wire = {} /\ sentCount = 0
    /\ pc = [r \in Requests |-> "idle"]
    /\ req = [r \in Requests |-> NoRequest]
    /\ outcome = [r \in Requests |-> <<>>]
    /\ sawFailure = [r \in Requests |-> FALSE]
    /\ nextInvoke = 0 /\ regQueue = <<>> /\ pending = NoRequests
    /\ slot = [r \in Requests |-> <<>>]
    /\ lastRx = NoRx
    /\ BodyIdle
    /\ dsQueue = <<>> /\ heard = <<>> /\ txLog = {}
    /\ events = [i \in 1..EventCapacity |-> Tick]
    /\ devices = NoRequests /\ device_objects = NoRequests
    /\ poll = PollIdle
    /\ SessionIdle

NextBackpressure ==
    \/ \E r \in RoleRequests, svc \in Services, peer \in Peers : Allocate(r, svc, peer)
    \/ \E r \in RoleRequests : RegisterSend(r)
    \/ \E r \in RoleRequests : Transmit(r)
    \/ \E r \in RoleRequests : AwaitReply(r)
    \/ \E r \in RoleRequests : AwaitTimeout(r)
    \/ RegistrationTask
    \/ ReceiverClient
    \/ ReceiverDiscovery
    \/ ReceiverResume
    \/ HandleTick
    \/ \E w \in wire : PeerReply(w, "ComplexAck")
    \/ \E dg \in Broadcasts : BroadcastOnDiscovery(dg)

SpecBackpressure == InitBackpressure /\ [][NextBackpressure]_vars

\* C27: the receiver is never suspended on the AppEvent channel, so a reply
\* waiting on the client socket can always be read and delivered.
C27_ReceiverNeverHeld ==
    /\ rxHold = None
    /\ Len(events) <= EventCapacity

-----------------------------------------------------------------------------
(* The mutexes of main.rs: which task holds which, operation by operation.
   The tasks spawned by the 'd' key (main.rs:175-180, 192-197) and the input
   task (main.rs:60-68) take no mutex and are left out. *)

Mutexes == {"app", "devices", "objects", "pending"}

\* One operation of a task: taking or releasing a mutex, an operation at which
\* the task may be suspended (an .await), or one that completes at once.
Lock(m) == [kind |-> "lock", on |-> m, suspends |-> FALSE]

Unlock(m) == [kind |-> "unlock", on |-> m, suspends |-> FALSE]

Await(kind, what) == [kind |-> kind, on |-> what, suspends |-> TRUE]

Sync(kind, what) == [kind |-> kind, on |-> what, suspends |-> FALSE]

\* main.rs:77 and ui.rs:9-42: terminal.draw renders under the App lock, taken
\* inside the closure and released with it; the device list is rendered with
\* the devices map locked (ui.rs:65), the object table with the points map
\* locked (ui.rs:117), the interface list with neither.
Draw(m) ==
    IF m = "none"
    THEN <<Lock("app"), Sync("terminal write", "terminal.draw"), Unlock("app")>>
    ELSE <<Lock("app"), Lock(m), Sync("terminal write", "terminal.draw"),
           Unlock(m), Unlock("app")>>

\* main.rs:79: every round of the main loop awaits the next event.
NextEvent == <<Await("channel receive", "rx.recv")>>

\* main.rs:76-234: the draw at the head of a round of the main loop, for each
\* view, and the rest of the round for each kind of event, from
\* rx.recv().await on. A key handler keeps the guard `app` of main.rs:82 to
\* the end of its arm; the methods of App lock the maps inside it
\* (app.rs:137-139, :157, :81, :90).
MainPaths ==
    [DrawInterfaces |-> Draw("none"),
     DrawDevices |-> Draw("devices"),
     DrawObjects |-> Draw("objects"),
     Tick |-> NextEvent,
     KeyEnterInterface |->
         NextEvent
         \o <<Lock("app"), Sync("socket bind", "create_shared_socket"),
              Sync("socket bind", "client socket"), Unlock("app")>>,
     KeyEnterDevice |->
         NextEvent \o <<Lock("app"), Lock("devices"), Unlock("devices"), Unlock("app")>>,
     KeyEsc |-> NextEvent \o <<Lock("app"), Unlock("app")>>,
     KeyRescan |->
         NextEvent
         \o <<Lock("app"), Lock("devices"), Lock("objects"), Unlock("objects"),
              Unlock("devices"), Unlock("app")>>,
     KeyEnumerate |->
         NextEvent \o <<Lock("app"), Lock("devices"), Unlock("devices"), Unlock("app")>>,
     KeyDownObjects |->
         NextEvent \o <<Lock("app"), Lock("objects"), Unlock("objects"), Unlock("app")>>,
     DeviceDiscovered |->
         NextEvent \o <<Lock("app"), Lock("devices"), Unlock("devices"), Unlock("app")>>,
     PointsDiscovered |->
         NextEvent \o <<Lock("app"), Lock("objects"), Unlock("objects"), Unlock("app")>>,
     StatusUpdate |-> NextEvent \o <<Lock("app"), Unlock("app")>>]

DrawPaths == {"DrawInterfaces", "DrawDevices", "DrawObjects"}

\* main.rs:114-133: the receiver's round in its three parts. recv_from on the
\* non-blocking sockets and the send into a oneshot slot return at once; the
\* slot is filled with the pending table still locked (main.rs:120-121).
ReceiverPaths ==
    [client |-> <<Sync("socket read", "cs_recv.recv_from")>>,
     clientReply |->
         <<Sync("socket read", "cs_recv.recv_from"), Lock("pending"),
           Sync("channel send", "tx_res.send"), Unlock("pending")>>,
     discovery |-> <<Sync("socket read", "ds_recv.recv_from")>>,
     discoveryIAm |->
         <<Sync("socket read", "ds_recv.recv_from"), Await("channel send", "tx_recv.send")>>,
     yield |-> <<Await("yield", "yield_now")>>]

\* main.rs:151-155, one point read of the poller. As a poller that kept the
\* App guard in a variable, alive across the read, would do:
PollerRead_GuardKept ==
    <<Lock("app"),
      Await("channel send", "tx_register.send"), Await("socket write", "send_to"),
      Await("await of a reply", "rx_res"), Await("channel send", "tx_poll.send"),
      Unlock("app"),
      Await("sleep", "100 ms")>>

PollerRead ==
    <<Lock("app"), Unlock("app"),
      Await("channel send", "tx_register.send"), Await("socket write", "send_to"),
      Await("await of a reply", "rx_res"), Await("channel send", "tx_poll.send"),
      Await("sleep", "100 ms")>>

\* main.rs:145-147: the sleep and the two snapshots, each lock a temporary of
\* its statement. As a poller that kept both guards to the end of the second
\* snapshot would do:
PollerSnapshot_GuardsKept ==
    <<Await("sleep", "5 s"), Lock("objects"), Lock("devices"),
      Unlock("devices"), Unlock("objects")>>

PollerSnapshot ==
    <<Await("sleep", "5 s"), Lock("objects"), Unlock("objects"),
      Lock("devices"), Unlock("devices")>>

\* The snapshots, then the reads of the sweep.
PollerPaths ==
    [sleep |-> PollerSnapshot,
     read |-> PollerRead]

\* main.rs:54-55
RegistrationPaths ==
    [register |-> <<Await("channel receive", "rx_register.recv"),
                    Lock("pending"), Unlock("pending")>>]

Paths(t) ==
    CASE t = "main" -> MainPaths
      [] t = "receiver" -> ReceiverPaths
      [] t = "poller" -> PollerPaths
      [] OTHER -> RegistrationPaths

\* The paths a task may take after the path p.
Follows(t, p) ==
    CASE t = "receiver" /\ p \in {"client", "clientReply"} -> {"discovery", "discoveryIAm"}
      [] t = "receiver" /\ p \in {"discovery", "discoveryIAm"} -> {"yield"}
      [] t = "receiver" /\ p = "yield" -> {"client", "clientReply"}
      [] t = "main" /\ p \in DrawPaths -> DOMAIN MainPaths \ DrawPaths
      [] t = "main" -> DrawPaths
      [] OTHER -> DOMAIN Paths(t)

\* The operation a task is at.
OpAt(t) == Paths(t)[at[t].path][at[t].step]

\* The task t moves on to the operation i of the path p. std::sync::Mutex::lock
\* returns once no task holds the mutex.
Perform(t, p, i) ==
    LET o == Paths(t)[p][i] IN
    /\ o.kind = "lock" => \A u \in Tasks : o.on \notin held[u]
    /\ held' = [held EXCEPT ![t] = IF o.kind = "lock" THEN @ \cup {o.on}
                                   ELSE IF o.kind = "unlock" THEN @ \ {o.on}
                                   ELSE @]
    /\ at' = [at EXCEPT ![t] = [path |-> p, step |-> i]]
    /\ UNCHANGED <<view, sockets, session, rxHold, app, spawned>>
    /\ UNCHANGED <<dsQueue, heard, txLog, events, devices, device_objects, poll>>
    /\ UNCHANGED codecVars
    /\ UNCHANGED xchgVars
    /\ UNCHANGED dispVars
    /\ UNCHANGED bodyVars

Step(t) ==
    IF at[t].step < Len(Paths(t)[at[t].path])
    THEN Perform(t, at[t].path, at[t].step + 1)
    ELSE \E p \in Follows(t, at[t].path) : Perform(t, p, 1)

MainStep == Step("main")

ReceiverStep == Step("receiver")

PollerStep == Step("poller")

RegistrationStep == Step("registration")

NextLocks ==
    \/ MainStep
    \/ ReceiverStep
    \/ PollerStep
    \/ RegistrationStep

SpecLocks == Init /\ [][NextLocks]_vars

\* C28: no task holds a mutex at an operation where it may be suspended:
\* whenever a task is at a socket read or write, a sleep, a channel send or
\* receive or the await of a reply that can suspend it, it holds none of the
\* four mutexes; and no mutex is held by two tasks.
C28_NoMutexAcrossSuspension ==
    /\ \A t \in Tasks : OpAt(t).suspends => held[t] = {}
    /\ \A t \in Tasks : held[t] \subseteq Mutexes
    /\ \A t, u \in Tasks : t # u => held[t] \cap held[u] = {}

\* The poller awaits a reply with its critical section behind it, while the
\* receiver fills a slot under the pending lock and the main loop is inside
\* a handler with the App and the devices lock.
C28_Witness ==
    /\ OpAt("poller").kind = "await of a reply"
    /\ held["poller"] = {}
    /\ OpAt("receiver").on = "tx_res.send"
    /\ held["receiver"] = {"pending"}
    /\ held["main"] = {"app", "devices"}
    /\ OpAt("registration").suspends

\* The order the mutexes are taken in when one is taken with another held:
\* the App lock (main.rs:82), then the devices map, then the points map
\* (app.rs:137-139); the pending table is locked on its own.
LockRank(m) ==
    CASE m = "app" -> 1
      [] m = "devices" -> 2
      [] m = "objects" -> 3
      [] OTHER -> 4

\* The mutex the next operation of the task t is to take, if it is a lock: a
\* task at the end of its path goes on to an await or a socket read.
Wants(t) ==
    IF at[t].step < Len(Paths(t)[at[t].path])
       /\ Paths(t)[at[t].path][at[t].step + 1].kind = "lock"
    THEN {Paths(t)[at[t].path][at[t].step + 1].on}
    ELSE {}

\* The task t waits for a mutex the task u holds.
WaitsFor(t, u) == t # u /\ Wants(t) \cap held[u] # {}

\* C36: the main loop, the poller, the receiver and the registration task do
\* not deadlock on the four mutexes: in no state is there a set of tasks each
\* waiting for a mutex another of the set holds; and a task that takes a mutex
\* with others held takes it after them in the one order App, devices,
\* points, pending.
C36_NoDeadlockOneLockOrder ==
    /\ \A S \in SUBSET Tasks :
           S # {} => \E t \in S : \A u \in S : ~WaitsFor(t, u)
    /\ \A t \in Tasks :
           OpAt(t).kind = "lock" =>
               \A m \in held[t] \ {OpAt(t).on} : LockRank(m) < LockRank(OpAt(t).on)

\* The main loop is inside App::clear with the App and the devices lock and
\* is to take the points lock, which the poller holds for its snapshot.
C36_Witness ==
    /\ at["main"].path = "KeyRescan"
    /\ held["main"] = {"app", "devices"}
    /\ Wants("main") = {"objects"}
    /\ held["poller"] = {"objects"}
    /\ WaitsFor("main", "poller")
    /\ Wants("poller") = {}

-----------------------------------------------------------------------------
(* The poller across restarts: Esc back to the interface list and Enter again
   abort the poller and spawn a new one (main.rs:142-143) *)

NextPollRestart ==
    \/ PollWake
    \/ \E r \in Requests : PollIssue(r)
    \/ PollSweepDone
    \/ PollResult
    \/ PollPaused
    \/ HandlePointUpdated
    \/ \E r \in Requests : RegisterSend(r)
    \/ \E r \in Requests : Transmit(r)
    \/ \E r \in Requests : AwaitReply(r)
    \/ \E r \in Requests : AwaitTimeout(r)
    \/ RegistrationTask
    \/ ReceiverClient
    \/ \E w \in wire, kind \in PollReplyKinds : PeerReply(w, kind)
    \/ ExitView
    \/ \E port_free \in BOOLEAN : SelectInterface(port_free)

SpecPollRestart == InitPoll /\ [][NextPollRestart]_vars

\* The reads the poller has issued whose call has not returned.
PollerOutstanding == {r \in DOMAIN poll.asked : InFlight(r)}

\* C29: the poller has at most one read outstanding at any time, and it issues
\* a read only when none of its reads is outstanding and the spacing since the
\* read before (100 ms, or the 5 s sleep of a new sweep or a new poller) has
\* passed; a poller spawned anew by a second Enter is no exception.
C29_PollerReadsSequential ==
    /\ [](Cardinality(PollerOutstanding) <= 1)
    /\ [][\A r \in Requests :
             (pc[r] = "idle" /\ pc'[r] # "idle") =>
                 /\ PollerOutstanding = {}
                 /\ poll.spaced
                 /\ PollerOutstanding' = {r}]_vars

\* The poller has been restarted during a read, and the new poller has a read
\* out while the one of the old poller is gone with it.
C29_Witness ==
    \E q, r \in DOMAIN poll.asked :
        /\ pc[q] = "dropped"
        /\ pc[r] = "await"
        /\ poll.pc = "read" /\ poll.id = r
        /\ PollerOutstanding = {r}

-----------------------------------------------------------------------------
(* Object enumeration from the object view: 'd' with ViewState::ObjectList *)

\* The broadcasts heard while the views are used: the I-Am of device 1234 from
\* either address, and a Who-Is.
EnumerateBroadcasts ==
    Broadcasts
        \cup {[src |-> PeerAddress(99999),
               data |-> IAmFrame(FnBroadcast, NpduPlain, 1234, IAmVendor)]}

\* main.rs:185 and :193: the address the request goes to is the one of the
\* record found for the viewed device. As a handler that broadcast the request
\* instead would do:
EnumerateAddress_Broadcast(devs, id) == "255.255.255.255:47808"

EnumerateAddress(devs, id) == devs[id].address

\* main.rs:183-200, 'd' in the object view: the record of the viewed device is
\* looked up, and only if there is one an invoke id is taken and the task that
\* calls read_device_objects is spawned.
EnumerateObjects(r) ==
    /\ view.kind = "ObjectList"
    /\ sockets.cs # "none"
    /\ view.id \in DOMAIN devices
    /\ AllocateId(r, SvcReadPropertyMultiple, EnumerateAddress(devices, view.id))
    /\ app' = [app EXCEPT !.status_message = "Discovering points for device..."]
    /\ spawned' = [spawned EXCEPT !.enumerate = Insert(@, r, view.id)]
    /\ UNCHANGED <<dsQueue, heard, txLog, events, devices, device_objects, poll>>
    /\ UNCHANGED <<view, sockets, session, rxHold, at, held>>

NextEnumerate ==
    \/ \E dg \in EnumerateBroadcasts : BroadcastOnDiscovery(dg)
    \/ ReceiverDiscovery
    \/ HandleDeviceDiscovered
    \/ Rescan
    \/ \E id \in DiscoveryPeers : EnterDevice(id)
    \/ ExitView
    \/ \E port_free \in BOOLEAN : SelectInterface(port_free)
    \/ \E r \in RoleRequests : EnumerateObjects(r)
    \/ \E r \in RoleRequests : RegisterSend(r)
    \/ \E r \in RoleRequests : Transmit(r)
    \/ \E r \in RoleRequests : AwaitReply(r)
    \/ \E r \in RoleRequests : AwaitTimeout(r)
    \/ RegistrationTask
    \/ ReceiverClient
    \/ \E w \in wire : PeerReply(w, "ComplexAck")

SpecEnumerate == Init /\ [][NextEnumerate]_vars

\* C30: an object-list request is issued only while the object view of a
\* device is shown whose id is in the devices map, it is addressed to the
\* address of that record, and that is the address it is transmitted to; with
\* no record for the viewed id no request is issued.
C30_EnumerateKnownDeviceOnly ==
    [][/\ \A r \in Requests :
             (pc[r] = "idle" /\ pc'[r] # "idle") =>
                 /\ view.kind = "ObjectList"
                 /\ view.id \in DOMAIN devices
                 /\ req'[r].service = SvcReadPropertyMultiple
                 /\ req'[r].peer = devices[view.id].address
       /\ \A w \in wire' \ wire : w.peer = req[w.r].peer]_vars

\* The request for the object list of device 1234 has gone to the address of
\* its record, which is that of the later I-Am, not the first.
C30_Witness ==
    /\ view = ObjectList(1234)
    /\ 1234 \in DOMAIN devices
    /\ devices[1234].address = PeerAddress(99999)
    /\ \E w \in wire : w.service = SvcReadPropertyMultiple /\ w.peer = PeerAddress(99999)

\* C38: while the object view of a device is open, the device is in the
\* devices map: the view is opened for a listed device only, and nothing
\* takes the device out of the map before the view is left.
C38_ViewedDeviceIsKnown ==
    view.kind = "ObjectList" => view.id \in DOMAIN devices

\* The object view of device 1234 is open after a rescan and an I-Am of the
\* device that came after it.
C38_Witness ==
    /\ view = ObjectList(1234)
    /\ DOMAIN devices = {1234}
    /\ app.is_scanning

-----------------------------------------------------------------------------
(* The object identifier on the wire: packed by read_present_value and the
   responder, unpacked by read_device_objects and extract_object_id_from_rp *)

InstanceSpace == 4194304      \* 2^22, the instances 0x3FFFFF masks to
TypeSpace == 1024             \* 2^10, the types 0x3FF masks to

\* Object types below 2^10 and u32 instances, around the byte and field borders.
PackedTypes == {0, 1, 2, 3, 4, 8, 59, 63, 64, 255, 256, 1000, 1023}

PackedInstances ==
    {0, 1, 255, 256, 65535, 65536, 4194303, 4194304, 4194305, 6291456, 16777215,
     16777216, 2147483647}

\* bacnet.rs:161-164: the service data of the ReadProperty request for the
\* object, identifier first.
PropertyRequestBody(o) == <<TagContext0Len4>> \o EncodeObjectId(o) \o <<9, 85>>

InitObjectId ==
    /\ response \in {PropertyRequestBody(ObjId(t, i)) : t \in PackedTypes, i \in PackedInstances}
    /\ whois = Unset /\ objects = Unset /\ value = Unset
    /\ data = <<>> /\ source = "" /\ expected = 0 /\ device = Unset /\ reply = Unset
    /\ sockMode = "nonblocking" /\ csQueue = <<>> /\ wire = {}
    /\ sentCount = 0 /\ pc = NoRequests /\ req = NoRequests
    /\ outcome = NoRequests /\ sawFailure = NoRequests
    /\ nextInvoke = 0 /\ regQueue = <<>> /\ pending = NoRequests /\ slot = NoRequests
    /\ lastRx = NoRx
    /\ AppIdle

\* responder.rs:97-102 (and bacnet.rs:131-134): the four bytes after the tag
\* are unpacked into type and instance.
CallUnpackObjectId ==
    /\ objects = Unset
    /\ objects' = IF Len(response) >= 5 /\ response[1] = TagContext0Len4
                  THEN Some(DecodeObjectId(SubSeq(response, 2, 5)))
                  ELSE None
    /\ UNCHANGED <<whois, response, value>>
    /\ UNCHANGED codecVars
    /\ UNCHANGED xchgVars
    /\ UNCHANGED dispVars
    /\ UNCHANGED appVars

NextObjectId == CallUnpackObjectId

SpecObjectId == InitObjectId /\ [][NextObjectId]_vars

\* C31: for every type below 2^10 and every instance, the packed identifier is
\* four bytes and unpacks to the same type and to the instance's low 22 bits:
\* an instance below 2^22 comes back unchanged, a larger one is truncated and
\* leaves the type as it was.
C31_ObjectIdRoundTrip ==
    \A t \in PackedTypes, i \in PackedInstances :
        (response = PropertyRequestBody(ObjId(t, i)) /\ objects # Unset) =>
            /\ t < TypeSpace
            /\ \A k \in 2..5 : response[k] \in 0..255
            /\ objects = Some(ObjId(t, i % InstanceSpace))
            /\ i < InstanceSpace => objects = Some(ObjId(t, i))

\* The identifier of type 1023 with an instance of 2^22 + 1 has been unpacked:
\* the instance is 1 and the type is still 1023.
C31_Witness ==
    /\ response = PropertyRequestBody(ObjId(1023, 4194305))
    /\ objects = Some(ObjId(1023, 1))

-----------------------------------------------------------------------------
(* The frames the encoders of bacnet.rs build: send_whois and
   send_confirmed_request *)

MaxBodyLen == 3

\* Npdu::new() with control.expecting_reply set (bacnet.rs:224-226).
NpduExpectingReply == <<1, 4>>

\* bacnet.rs:210-233: the frame of a confirmed request: the BVLC header of an
\* Original-Unicast-NPDU, the NPDU, and the APDU (unsegmented, segmented
\* response accepted, up to 1476 octets) with the service data.
ConfirmedRequestFrame(invoke_id, service, service_data) ==
    Bvlc(FnUnicast, NpduExpectingReply \o <<2, 5, invoke_id, service>> \o service_data)

\* bacnet.rs:110-116 and :268-281: the service data of the ReadPropertyMultiple
\* request for the object list (property 76) of the device.
ObjectListRequestBody(device_id) ==
    <<TagContext0Len4>> \o EncodeObjectId(ObjId(TypeDevice, device_id)) \o <<30, 9, 76, 31>>

\* The service data the encoder is given by its two callers, and service data
\* of other lengths: short ones, and ones that take the frame to 255, 256 and
\* 300 octets.
RequestBodies ==
    {ObjectListRequestBody(d) : d \in RpmDeviceIds \cup DiscoveryPeers}
    \cup {PropertyRequestBody(o) : o \in ObjectPool}
    \cup UNION {[1..n -> {0, 255}] : n \in 0..MaxBodyLen}
    \cup {[i \in 1..n |-> i % 256] : n \in {245, 246, 290}}

InitEncode ==
    /\ response \in RequestBodies
    /\ expected \in {0, 1, 2, 255}
    /\ data = <<>> /\ source = "" /\ device = Unset /\ reply = Unset
    /\ whois = Unset /\ objects = Unset /\ value = Unset
    /\ sockMode = "nonblocking" /\ csQueue = <<>> /\ wire = {}
    /\ sentCount = 0 /\ pc = NoRequests /\ req = NoRequests
    /\ outcome = NoRequests /\ sawFailure = NoRequests
    /\ nextInvoke = 0 /\ regQueue = <<>> /\ pending = NoRequests /\ slot = NoRequests
    /\ lastRx = NoRx
    /\ AppIdle

\* bacnet.rs:28-50: the Who-Is frame is built.
CallSendWhois ==
    /\ data = <<>>
    /\ data' = WhoIsFrame
    /\ UNCHANGED <<source, expected, device, reply>>
    /\ UNCHANGED xchgVars
    /\ UNCHANGED dispVars
    /\ UNCHANGED bodyVars
    /\ UNCHANGED appVars

\* bacnet.rs:210-233: the frame of a confirmed request is built.
CallSendConfirmedRequest(service) ==
    /\ data = <<>>
    /\ data' = ConfirmedRequestFrame(expected, service, response)
    /\ UNCHANGED <<source, expected, device, reply>>
    /\ UNCHANGED xchgVars
    /\ UNCHANGED dispVars
    /\ UNCHANGED bodyVars
    /\ UNCHANGED appVars

NextEncode ==
    \/ CallSendWhois
    \/ \E service \in Services : CallSendConfirmedRequest(service)

SpecEncode == InitEncode /\ [][NextEncode]_vars

\* C32: a frame built by send_whois or send_confirmed_request starts with
\* 0x81, every octet of it is a byte, and octets 2-3 read high byte first are
\* the length of the whole datagram; a confirmed request is the 10 octets of
\* the headers and the service data it was given.
C32_EncodedLengthIsTotal ==
    data # <<>> =>
        /\ data[1] = BvlcType
        /\ \A k \in 1..Len(data) : data[k] \in 0..255
        /\ data[3] * 256 + data[4] = Len(data)
        /\ data[2] = FnUnicast => Len(data) = 10 + Len(response)

\* A confirmed request of 300 octets has been built: its length field is
\* 0x01 0x2C.
C32_Witness ==
    /\ Len(data) = 300
    /\ data[2] = FnUnicast
    /\ data[3] = 1 /\ data[4] = 44

-----------------------------------------------------------------------------
(* The points of a device: the enumeration task's report and the main loop's
   handlers for it *)

PointsDiscovered(device_id, points) ==
    [kind |-> "PointsDiscovered", device_id |-> device_id, points |-> points]

StatusUpdate(msg) == [kind |-> "StatusUpdate", msg |-> msg]

\* bacnet.rs:138-144: one point for every object the scan of the ack finds.
PointsOf(body) ==
    [i \in 1..Len(ScanObjects(body)) |-> Point(ScanObjects(body)[i])]

\* main.rs:192-197, the task spawned by 'd' in the object view, once
\* read_device_objects has returned: the points go to the main loop under the
\* device id the task was spawned with, a failure goes as a status line.
EnumerateResult(r) ==
    /\ r \in DOMAIN spawned.enumerate
    /\ pc[r] = "done"
    /\ Len(events) < EventCapacity
    /\ LET o == outcome[r][Len(outcome[r])] IN
       events' = Append(events,
                        IF o.kind = "Reply"
                        THEN PointsDiscovered(spawned.enumerate[r], PointsOf(o.body))
                        ELSE StatusUpdate("Error: Timeout"))
    /\ spawned' = [spawned EXCEPT !.enumerate = Remove(@, r).rest]
    /\ UNCHANGED <<dsQueue, heard, txLog, devices, device_objects, poll>>
    /\ UNCHANGED <<view, sockets, session, rxHold, at, held, app>>
    /\ UNCHANGED codecVars
    /\ UNCHANGED xchgVars
    /\ UNCHANGED dispVars
    /\ UNCHANGED bodyVars

\* main.rs:214-218: the points are stored under the device id of the event.
HandlePointsDiscovered ==
    /\ events # <<>>
    /\ Head(events).kind = "PointsDiscovered"
    /\ device_objects' = Insert(device_objects, Head(events).device_id, Head(events).points)
    /\ events' = Tail(events)
    /\ UNCHANGED <<dsQueue, heard, txLog, devices, poll>>
    /\ UNCHANGED sessVars
    /\ UNCHANGED codecVars
    /\ UNCHANGED xchgVars
    /\ UNCHANGED dispVars
    /\ UNCHANGED bodyVars

\* main.rs:229-231: the status line takes the text of the event.
HandleStatusUpdate ==
    /\ events # <<>>
    /\ Head(events).kind = "StatusUpdate"
    /\ app' = [app EXCEPT !.status_message = Head(events).msg]
    /\ events' = Tail(events)
    /\ UNCHANGED <<dsQueue, heard, txLog, devices, device_objects, poll>>
    /\ UNCHANGED <<view, sockets, session, rxHold, at, held, spawned>>
    /\ UNCHANGED codecVars
    /\ UNCHANGED xchgVars
    /\ UNCHANGED dispVars
    /\ UNCHANGED bodyVars

\* The views, the rescan and the enumeration, with the enumeration task seen
\* through to its report.
NextPoints ==
    \/ NextEnumerate
    \/ \E r \in RoleRequests : EnumerateResult(r)
    \/ HandlePointsDiscovered
    \/ HandleStatusUpdate

SpecPoints == Init /\ [][NextPoints]_vars

\* C33: every device that has points stored is a device of the devices map,
\* whatever the order of a rescan, an enumeration in flight and the handling
\* of its PointsDiscovered event.
C33_PointsOnlyForKnownDevices ==
    DOMAIN device_objects \subseteq DOMAIN devices

-----------------------------------------------------------------------------
(* Replies from a host that was not asked *)

\* A host the application has sent no request to.
Strangers == {"192.168.1.100:47808"}

\* A host other than the peer of the request w sends a ComplexAck that carries
\* the invoke id of w to the port of the client socket.
StrangerReply(w, src) ==
    /\ src # w.peer
    /\ sentCount < MaxDatagrams
    /\ csQueue = <<>>
    /\ sentCount' = sentCount + 1
    /\ csQueue' = Append(csQueue, [src |-> src,
                                   data |-> ReplyFrame("ComplexAck", w.invoke_id, w.service, w.r)])
    /\ UNCHANGED <<sockMode, wire, pc, req, outcome, sawFailure>>
    /\ UNCHANGED codecVars
    /\ UNCHANGED dispVars
    /\ UNCHANGED bodyVars
    /\ UNCHANGED appVars

NextStranger ==
    \/ Next
    \/ \E w \in wire, src \in Strangers : StrangerReply(w, src)

SpecStranger == Init /\ [][NextStranger]_vars

\* C34: the entry of a request leaves the pending table for a reply, and its
\* slot is given a body, only when the datagram read came from the peer the
\* request was sent to; a ComplexAck with the same invoke id from any other
\* address leaves the entry and the slot as they were.
C34_ReplyOnlyFromPeer ==
    [][\A r \in Requests :
           (/\ csQueue # <<>>
            /\ csQueue' = Tail(csQueue)
            /\ \/ slot'[r] # slot[r]
               \/ /\ req[r].invoke_id \in DOMAIN pending \ DOMAIN pending'
                  /\ pending[req[r].invoke_id] = r)
               => Head(csQueue).src = req[r].peer]_vars

-----------------------------------------------------------------------------
(* The interface list: its selection, and what Enter does with it *)

\* The interfaces a host may list.
MaxInterfaces == 2

\* app.rs:72-79, next() in the interface list: one row down, from the last
\* row to the first. As a list that went down without the wrap would do:
InterfaceNext_NoWrap(a) ==
    IF a.interfaces = 0 THEN a
    ELSE [a EXCEPT !.interface_list_state =
             IF @ = None THEN Some(0) ELSE Some(@.val + 1)]

InterfaceNext(a) ==
    IF a.interfaces = 0 THEN a
    ELSE [a EXCEPT !.interface_list_state =
             IF @ = None THEN Some(0)
             ELSE IF @.val >= a.interfaces - 1 THEN Some(0) ELSE Some(@.val + 1)]

\* app.rs:105-112, previous() in the interface list.
InterfacePrevious(a) ==
    IF a.interfaces = 0 THEN a
    ELSE [a EXCEPT !.interface_list_state =
             IF @ = None THEN Some(0)
             ELSE IF @.val = 0 THEN Some(a.interfaces - 1) ELSE Some(@.val - 1)]

\* main.rs:204-205, Down and Up while the interface list is shown.
KeyDownInterface ==
    /\ view = InterfaceSelect
    /\ app' = InterfaceNext(app)
    /\ UNCHANGED <<view, sockets, session, rxHold, at, held, spawned>>
    /\ UNCHANGED <<dsQueue, heard, txLog, events, devices, device_objects, poll>>
    /\ UNCHANGED codecVars
    /\ UNCHANGED xchgVars
    /\ UNCHANGED dispVars
    /\ UNCHANGED bodyVars

KeyUpInterface ==
    /\ view = InterfaceSelect
    /\ app' = InterfacePrevious(app)
    /\ UNCHANGED <<view, sockets, session, rxHold, at, held, spawned>>
    /\ UNCHANGED <<dsQueue, heard, txLog, events, devices, device_objects, poll>>
    /\ UNCHANGED codecVars
    /\ UNCHANGED xchgVars
    /\ UNCHANGED dispVars
    /\ UNCHANGED bodyVars

\* App::new on a host with any number of interfaces, none included; no socket
\* is bound yet.
InitInterfaces ==
    /\ data = <<>> /\ source = "" /\ expected = 0 /\ device = Unset /\ reply = Unset
    /\ sockMode = "nonblocking" /\ csQueue = <<>> /\ wire = {} /\ sentCount = 0
    /\ pc = [r \in Requests |-> "idle"]
    /\ req = [r \in Requests |-> NoRequest]
    /\ outcome = [r \in Requests |-> <<>>]
    /\ sawFailure = [r \in Requests |-> FALSE]
    /\ nextInvoke = 0 /\ regQueue = <<>> /\ pending = NoRequests
    /\ slot = [r \in Requests |-> <<>>]
    /\ lastRx = NoRx
    /\ BodyIdle
    /\ dsQueue = <<>> /\ heard = <<>> /\ txLog = {} /\ events = <<>>
    /\ devices = NoRequests /\ device_objects = NoRequests
    /\ poll = PollIdle
    /\ view = InterfaceSelect /\ sockets = NoSockets /\ session = "running"
    /\ rxHold = None
    /\ at = TaskStart /\ held = [t \in Tasks |-> {}]
    /\ app \in {AppNew(n) : n \in 0..MaxInterfaces}
    /\ spawned = NoneSpawned

NextInterfaces ==
    \/ \E port_free \in BOOLEAN : SelectInterface(port_free)
    \/ KeyDownInterface
    \/ KeyUpInterface
    \/ ExitView
    \/ \E id \in DiscoveryPeers : EnterDevice(id)
    \/ \E dg \in DiscoveryDatagrams : DiscoveryArrives(dg)
    \/ ReceiverDiscovery
    \/ HandleDeviceDiscovered
    \/ Rescan

SpecInterfaces == InitInterfaces /\ [][NextInterfaces]_vars

\* C37: while the device list or an object view is shown, the interface index
\* is Some(i) with i below the number of interfaces and both sockets exist, so
\* the 'd' handler finds the index it unwraps; and while the interface list is
\* shown with no row selected, no key (Enter included) changes the view or the
\* sockets.
C37_ViewsHaveInterfaceAndSockets ==
    [][/\ view.kind \in {"DeviceList", "ObjectList"} =>
             /\ app.selected_interface_index # None
             /\ app.selected_interface_index.val \in 0..(app.interfaces - 1)
             /\ sockets.ds # "none" /\ sockets.cs # "none"
       /\ (view = InterfaceSelect /\ app.interface_list_state = None) =>
             (view' = view /\ sockets' = sockets)]_vars

\* On a host with two interfaces the second is selected and the object view
\* of a device is open; both sockets are bound.
C37_Witness ==
    /\ view = ObjectList(1234)
    /\ app.interfaces = 2
    /\ app.selected_interface_index = Some(1)
    /\ sockets = SocketsBound

-----------------------------------------------------------------------------
(* The listen window of a scan and App.is_scanning *)

\* main.rs:178-179, the task spawned by 'd' in the device list: its sleep of
\* 3 s, the listen window, is over and it reports "Scan complete." to the
\* main loop.
ScanElapsed ==
    /\ spawned.scans > 0
    /\ Len(events) < EventCapacity
    /\ events' = Append(events, StatusUpdate("Scan complete."))
    /\ spawned' = [spawned EXCEPT !.scans = @ - 1]
    /\ UNCHANGED <<dsQueue, heard, txLog, devices, device_objects, poll>>
    /\ UNCHANGED <<view, sockets, session, rxHold, at, held, app>>
    /\ UNCHANGED codecVars
    /\ UNCHANGED xchgVars
    /\ UNCHANGED dispVars
    /\ UNCHANGED bodyVars

NextScan ==
    \/ Rescan
    \/ ScanElapsed
    \/ HandleStatusUpdate
    \/ \E dg \in DiscoveryDatagrams : DiscoveryArrives(dg)
    \/ ReceiverDiscovery
    \/ HandleDeviceDiscovered

SpecScan == Init /\ [][NextScan]_vars

\* A listen window is open: a scan task is in its sleep.
WindowOpen == spawned.scans > 0

\* C39: is_scanning is true exactly while a listen window is open: true while
\* a scan task is in its sleep, and false once no window is open and every
\* "Scan complete." report has been handled by the main loop.
C39_ScanningWhileWindowOpen ==
    /\ WindowOpen => app.is_scanning
    /\ (/\ ~WindowOpen
        /\ \A k \in 1..Len(events) : events[k].kind # "StatusUpdate")
           => ~app.is_scanning

====
